---- MODULE Spec2Model ----
(***************************************************************************)
(* Model of backend/server.py: the request handlers of the badge generator *)
(* over the shared document store.  Each handler is one action; a request  *)
(* is its session cookie plus its body, the answer is recorded in resp.    *)
(* Timestamps (created_at, last_active, updated_at) are not modelled: no   *)
(* handler branches on them.                                               *)
(***************************************************************************)
EXTENDS Integers, Sequences, FiniteSets, TLC

(* ------------------------------ bounds --------------------------------- *)
\* writes of one run: logins (each mints a session token) plus rows inserted
\* into the collections other than db.users
MaxWrites == 3

(* ------------------------- request input domains ----------------------- *)
\* login names: the hardcoded admin name and one that differs from it in
\* case only
Names == {"Arush T.", "arush t."}
\* login names of the login-only specification: also names that differ from
\* the admin name in trailing punctuation only
LoginNames == Names \cup {"Arush T", "Arush T.."}
\* absent cookie (None or the empty string: both are falsy in the handlers)
NoToken == 0
\* session tokens are uuid4 strings, modelled as 1, 2, ... in minting order;
\* BogusToken is a non-empty cookie value that no login ever returns
BogusToken == 0 - 1
Departments == {"Eng", "Ops"}
Titles == {"t1", "t2"}
Sources == {"s1", "s2"}
\* what_learned as its list of whitespace-separated words (blank = <<>>)
Learned == {<<>>, <<"tla">>}
\* the category filter; "" stands for an absent or empty one (both falsy)
Categories == {"", "General", "Video"}
\* hours_invested of a milestone (a float in the code, an integer here)
Hours == {7}
\* hours_invested where the monthly figures are read: the field is any
\* number, negative ones included
StatsHours == {0 - 7, 3, 7}
\* path parameters ({user_id}, {goal_id}, {resource_id})
PathIds == 1 .. 2
\* text is a sequence of tokens: the two markers of the reply format, a
\* word, a space and a newline
BADGE == "BADGE:"
LINKEDIN_POST == "LINKEDIN_POST:"
Tokens == {BADGE, LINKEDIN_POST, "w", " ", "\n"}

\* outcomes of the call to the external generation API: a status other than
\* 200, a 200 whose JSON holds no candidate content, or a 200 with a text
NoReply(kind) == [kind |-> kind, text |-> <<>>]
Reply(text) == [kind |-> "text", text |-> text]
Upstream ==
    {NoReply("non200"), NoReply("invalid"),
     Reply(<<"w", " ", "w">>),
     Reply(<<BADGE, " ", "w", "\n", LINKEDIN_POST, " ", "w">>)}

\* the body of POST /generate
Requests ==
    {[employeeName |-> "Sarah Johnson", learning |-> "tla",
      difficulty |-> "Moderate"]}

\* the store write of /generate that fails, if one does
StoreFaults == {"none", "insert", "update"}

\* the two request handlers that run at the same time in the interleaved
\* specification
Workers == {"w1", "w2"}

VARIABLES
    users,              \* db.users: rows in insertion order
    employee_profiles,  \* db.employee_profiles
    learning_goals,     \* db.learning_goals
    milestones,         \* db.milestones
    resources,          \* db.resources
    bookmarks,          \* db.bookmarks
    badge_generations,  \* db.badge_generations
    admin_actions,      \* db.admin_actions
    nextToken,          \* the next uuid4 session token
    GEMINI_API_KEY,     \* whether the key was configured at start-up
    now,                \* the server clock: the current UTC month
    budget,             \* the writes this run may make (fixed by Init)
    inflight,           \* per worker: the request between its existence
                        \* check and its write
    resp                \* the last request and its answer

\* the tokens minted so far
Minted == 1 .. (nextToken - 1)

\* the cookies a request presents: none, any token a login has returned
\* (live or not), or a value that was never issued
Cookies == {NoToken, BogusToken} \cup Minted

others == <<employee_profiles, learning_goals, milestones, resources,
            bookmarks, badge_generations, admin_actions>>
store == <<users, others>>
\* what no handler writes: the configuration, the clock and the write budget
rest == <<GEMINI_API_KEY, now, budget, inflight>>
vars == <<store, nextToken, rest, resp>>

(* ----------------------------- store helpers --------------------------- *)
\* rows held outside db.users
RowCount ==
    Len(employee_profiles) + Len(learning_goals) + Len(milestones)
    + Len(resources) + Len(bookmarks) + Len(badge_generations)
    + Len(admin_actions)

\* the model's room for n more writes
Room(n) == (nextToken - 1) + RowCount + n <= budget

\* find_one: index of the first row satisfying P, 0 when there is none
FindOne(coll, P(_)) ==
    IF \E i \in 1 .. Len(coll) : P(coll[i])
    THEN CHOOSE i \in 1 .. Len(coll) :
            P(coll[i]) /\ \A j \in 1 .. (i - 1) : ~P(coll[j])
    ELSE 0

\* update_one: apply F to the first row satisfying P (no row: no change)
UpdateOne(coll, P(_), F(_)) ==
    LET i == FindOne(coll, P) IN
    IF i = 0 THEN coll ELSE [coll EXCEPT ![i] = F(coll[i])]

\* db.users.find_one({"session_token": tok}); a null filter value also
\* matches rows whose field is unset
UserByToken(tok) ==
    LET Bound(u) == u.session_token = tok IN FindOne(users, Bound)

\* a lookup on the wrong field, which matches no row
UserByName_wrong_field(name) == 0

\* db.users.find_one({"name": name})
UserByName(name) ==
    LET Named(u) == u.name = name IN FindOne(users, Named)

\* the prefix of the badge data URI
SvgDataUri == "data:image/svg+xml;base64,"

\* the payload of an answer that carries none: an error, or a payload no
\* property reads
NoBody ==
    [resources |-> <<>>,
     monthly_learning_hours |-> 0, employees_meeting_target |-> 0,
     badgeUrl |-> <<>>, linkedinPost |-> <<>>, skills_trends |-> {},
     goals |-> <<>>, milestones |-> <<>>, peers |-> <<>>]

\* the answer of a request: endpoint, HTTP status, whether the external
\* generator was called, the text it replied, the detail and the payload
Answer(op, status, called) ==
    [op |-> op, status |-> status, called |-> called, reply |-> <<>>,
     detail |-> "", body |-> NoBody]

(* ------------------------------ session guards ------------------------- *)
\* the guard without its "if not session_token" test: the null cookie goes
\* to the lookup
verify_user_session_no_cookie_test(tok) ==
    IF UserByToken(tok) = 0 THEN [status |-> 401, user |-> 0]
    ELSE [status |-> 200, user |-> UserByToken(tok)]

\* verify_user_session: [status, user] (user = index in users, 0 on reject)
verify_user_session(tok) ==
    IF tok = NoToken THEN [status |-> 401, user |-> 0]
    ELSE IF UserByToken(tok) = 0 THEN [status |-> 401, user |-> 0]
    ELSE [status |-> 200, user |-> UserByToken(tok)]

\* the guard without its role test
verify_admin_no_role_test(tok) ==
    IF tok = NoToken THEN [status |-> 401, user |-> 0]
    ELSE IF UserByToken(tok) = 0 THEN [status |-> 403, user |-> 0]
    ELSE [status |-> 200, user |-> UserByToken(tok)]

\* verify_admin
verify_admin(tok) ==
    IF tok = NoToken THEN [status |-> 401, user |-> 0]
    ELSE IF UserByToken(tok) = 0 \/ users[UserByToken(tok)].role # "admin"
    THEN [status |-> 403, user |-> 0]
    ELSE [status |-> 200, user |-> UserByToken(tok)]

(* ------------------------------- Init ---------------------------------- *)
\* a worker between requests
Idle == [op |-> "idle", name |-> "", user |-> 0, arg |-> "", target |-> 0]

\* the state after start-up, with room for b writes
Start(b) ==
    /\ users = <<>>
    /\ employee_profiles = <<>>
    /\ learning_goals = <<>>
    /\ milestones = <<>>
    /\ resources = <<>>
    /\ bookmarks = <<>>
    /\ badge_generations = <<>>
    /\ admin_actions = <<>>
    /\ nextToken = 1
    /\ GEMINI_API_KEY \in BOOLEAN
    /\ now = 1
    /\ budget = b
    /\ inflight = [w \in Workers |-> Idle]
    /\ resp = Answer("none", 0, FALSE)

Init == Start(MaxWrites)

(* ------------------------------ /auth/login ---------------------------- *)
\* the name match made case-insensitive
NewRole_ignoring_case(name) ==
    IF name \in {"Arush T.", "arush t."} THEN "admin" ELSE "user"

\* role given to a user created for name
NewRole(name) == IF name = "Arush T." THEN "admin" ELSE "user"

\* the token written on the first row of the collection instead of the row
\* of the user's id
LoginUsers_token_on_first_row(name) ==
    LET found == UserByName(name)
        withRow ==
            IF found # 0 THEN users
            ELSE Append(users, [id |-> Len(users) + 1, name |-> name,
                                role |-> NewRole(name),
                                session_token |-> NoToken,
                                total_badges_generated |-> 0])
    IN [withRow EXCEPT ![1].session_token = nextToken]

\* the users collection after the find/insert and the token overwrite
LoginUsers(name) ==
    LET found == UserByName(name)
        withRow ==
            IF found # 0 THEN users
            ELSE Append(users, [id |-> Len(users) + 1, name |-> name,
                                role |-> NewRole(name),
                                session_token |-> NoToken,
                                total_badges_generated |-> 0])
        uid == IF found # 0 THEN users[found].id ELSE Len(users) + 1
        HasId(u) == u.id = uid
        SetToken(u) == [u EXCEPT !.session_token = nextToken]
    IN UpdateOne(withRow, HasId, SetToken)

login_user(name) ==
    LET found == UserByName(name)
        uid == IF found # 0 THEN users[found].id ELSE Len(users) + 1
        role == IF found # 0 THEN users[found].role ELSE NewRole(name)
    IN
    /\ Room(IF role = "admin" THEN 2 ELSE 1)
    /\ users' = LoginUsers(name)
    /\ nextToken' = nextToken + 1
    /\ admin_actions' =
          IF role = "admin"
          THEN Append(admin_actions,
                      [admin_id |-> uid, admin_name |-> name,
                       action |-> "login"])
          ELSE admin_actions
    /\ resp' = Answer("login", 200, FALSE)
    /\ UNCHANGED <<employee_profiles, learning_goals, milestones, resources,
                   bookmarks, badge_generations, rest>>

(* ------------------------------ /auth/logout --------------------------- *)
\* update_many with an empty filter: every row loses its token
LogoutUsers_all_rows(tok) ==
    IF tok # NoToken
    THEN [i \in 1 .. Len(users) |->
             [users[i] EXCEPT !.session_token = NoToken]]
    ELSE users

\* db.users.update_one({"session_token": tok}, {"$unset": ...}), skipped for
\* an absent cookie
LogoutUsers(tok) ==
    LET Bound(u) == u.session_token = tok
        Unset(u) == [u EXCEPT !.session_token = NoToken]
    IN IF tok # NoToken THEN UpdateOne(users, Bound, Unset) ELSE users

\* logout put behind the session guard's cookie test
LogoutStatus_cookie_required(tok) == IF tok = NoToken THEN 401 ELSE 200

\* the handler raises nothing of its own: with or without a cookie it
\* answers {"message": "Logged out successfully"}
LogoutStatus(tok) == 200

logout_user(tok) ==
    /\ users' = LogoutUsers(tok)
    /\ resp' = Answer("logout", LogoutStatus(tok), FALSE)
    /\ UNCHANGED <<others, nextToken, rest>>

(* -------------------------------- /auth/me ----------------------------- *)
\* every exception, the handler's own 401s included, is answered 401
MeStatus(tok) ==
    IF tok = NoToken THEN 401
    ELSE IF UserByToken(tok) = 0 THEN 401
    ELSE 200

get_current_user(tok) ==
    /\ resp' = Answer("me", MeStatus(tok), FALSE)
    /\ UNCHANGED <<store, nextToken, rest>>

\* a find sorted by created_at descending: rows are created in insertion
\* order, so the newest is the last inserted
NewestFirst(rows) == [i \in 1 .. Len(rows) |-> rows[Len(rows) + 1 - i]]

(* ------------------------------- /profile ------------------------------ *)
\* db.employee_profiles.find_one({"user_id": uid})
ProfileOf(uid) ==
    LET Owned(p) == p.user_id = uid IN FindOne(employee_profiles, Owned)

\* the answer with the existence check left out
CreateProfileStatus_never_conflict(tok) == verify_user_session(tok).status

\* the answer of POST /profile: 400 "Profile already exists" when find_one
\* returns a profile of the user
CreateProfileStatus(tok) ==
    LET v == verify_user_session(tok) IN
    IF v.status # 200 THEN v.status
    ELSE IF ProfileOf(users[v.user].id) # 0 THEN 400
    ELSE 200

create_employee_profile(tok, dept) ==
    LET v == verify_user_session(tok)
        st == CreateProfileStatus(tok)
    IN
    /\ st = 200 => Room(1)
    /\ employee_profiles' =
          IF st = 200
          THEN Append(employee_profiles,
                      [id |-> Len(employee_profiles) + 1,
                       user_id |-> users[v.user].id, department |-> dept])
          ELSE employee_profiles
    /\ resp' = Answer("create_profile", st, FALSE)
    /\ UNCHANGED <<users, learning_goals, milestones, resources, bookmarks,
                   badge_generations, admin_actions, nextToken,
                   rest>>

get_employee_profile(tok) ==
    LET v == verify_user_session(tok)
        st == IF v.status # 200 THEN v.status
              ELSE IF ProfileOf(users[v.user].id) = 0 THEN 404
              ELSE 200
    IN
    /\ resp' = Answer("get_profile", st, FALSE)
    /\ UNCHANGED <<store, nextToken, rest>>

update_employee_profile(tok, dept) ==
    LET v == verify_user_session(tok)
        uid == IF v.user # 0 THEN users[v.user].id ELSE 0
        Owned(p) == p.user_id = uid
        Set(p) == [p EXCEPT !.department = dept]
        st == IF v.status # 200 THEN v.status
              ELSE IF FindOne(employee_profiles, Owned) = 0 THEN 404
              ELSE 200
    IN
    /\ employee_profiles' =
          IF v.status = 200 THEN UpdateOne(employee_profiles, Owned, Set)
          ELSE employee_profiles
    /\ resp' = Answer("update_profile", st, FALSE)
    /\ UNCHANGED <<users, learning_goals, milestones, resources, bookmarks,
                   badge_generations, admin_actions, nextToken,
                   rest>>

(* -------------------------------- /goals ------------------------------- *)
create_learning_goal(tok, title) ==
    LET v == verify_user_session(tok)
        uid == IF v.user # 0 THEN users[v.user].id ELSE 0
    IN
    /\ v.status = 200 => Room(1)
    /\ learning_goals' =
          IF v.status = 200
          THEN Append(learning_goals,
                      [id |-> Len(learning_goals) + 1, user_id |-> uid,
                       title |-> title, status |-> "active"])
          ELSE learning_goals
    /\ resp' = Answer("create_goal", v.status, FALSE)
    /\ UNCHANGED <<users, employee_profiles, milestones, resources,
                   bookmarks, badge_generations, admin_actions, nextToken,
                   rest>>

\* the query without its filter
GoalsOf_every_user(uid) == learning_goals

\* db.learning_goals.find({"user_id": uid})
GoalsOf(uid) ==
    LET Owned(g) == g.user_id = uid IN SelectSeq(learning_goals, Owned)

get_learning_goals(tok) ==
    LET v == verify_user_session(tok) IN
    /\ resp' = IF v.status = 200
               THEN [Answer("get_goals", 200, FALSE) EXCEPT
                        !.body.goals = NewestFirst(GoalsOf(users[v.user].id))]
               ELSE Answer("get_goals", v.status, FALSE)
    /\ UNCHANGED <<store, nextToken, rest>>

update_learning_goal(tok, goal_id, title) ==
    LET v == verify_user_session(tok)
        uid == IF v.user # 0 THEN users[v.user].id ELSE 0
        Mine(g) == g.id = goal_id /\ g.user_id = uid
        Set(g) == [g EXCEPT !.title = title]
        st == IF v.status # 200 THEN v.status
              ELSE IF FindOne(learning_goals, Mine) = 0 THEN 404
              ELSE 200
    IN
    /\ learning_goals' =
          IF v.status = 200 THEN UpdateOne(learning_goals, Mine, Set)
          ELSE learning_goals
    /\ resp' = Answer("update_goal", st, FALSE)
    /\ UNCHANGED <<users, employee_profiles, milestones, resources,
                   bookmarks, badge_generations, admin_actions, nextToken,
                   rest>>

(* ------------------------------ /milestones ---------------------------- *)
\* auto_add_resource_from_milestone: the resources collection after it.
\* what_learned.split()[0] raises on a blank text; the exception is caught
\* and logged, and nothing is inserted.
auto_add_resource_from_milestone(source, learned, uid) ==
    LET HasUrl(r) == r.url = source IN
    IF FindOne(resources, HasUrl) # 0 THEN resources
    ELSE IF learned = <<>> THEN resources
    ELSE Append(resources,
                [id |-> Len(resources) + 1, url |-> source,
                 category |-> "General", added_by_user_id |-> uid,
                 approved |-> FALSE, approved_by_admin_id |-> 0])

\* the answer had the exception of the resource step not been caught
MilestoneStatus_resource_error_raised(tok, source, learned) ==
    LET v == verify_user_session(tok)
        HasUrl(r) == r.url = source
    IN IF v.status # 200 THEN v.status
       ELSE IF FindOne(resources, HasUrl) = 0 /\ learned = <<>> THEN 500
       ELSE 200

\* the answer of POST /milestones: the milestone once the session is
\* verified, whatever auto_add_resource_from_milestone did, which catches
\* and logs its own exceptions
MilestoneStatus(tok, source, learned) == verify_user_session(tok).status

\* the handler storing its milestone in place of the collection's last
\* row (a replace_one of the newest document) instead of inserting it
create_milestone_replacing(tok, source, learned, hours) ==
    LET v == verify_user_session(tok)
        uid == IF v.user # 0 THEN users[v.user].id ELSE 0
        row == [id |-> Len(milestones) + 1, user_id |-> uid,
                what_learned |-> learned, source |-> source,
                hours_invested |-> hours, month_year |-> now]
    IN
    /\ v.status = 200 => Room(1)
    /\ milestones' =
          IF v.status # 200 THEN milestones
          ELSE IF milestones = <<>> THEN <<row>>
          ELSE [milestones EXCEPT ![Len(milestones)] = row]
    /\ resp' = Answer("create_milestone", v.status, FALSE)
    /\ UNCHANGED <<users, employee_profiles, learning_goals, resources,
                   bookmarks, badge_generations, admin_actions, nextToken,
                   rest>>

create_milestone(tok, source, learned, hours) ==
    LET v == verify_user_session(tok)
        uid == IF v.user # 0 THEN users[v.user].id ELSE 0
        added == auto_add_resource_from_milestone(source, learned, uid)
    IN
    /\ v.status = 200 => Room(1 + Len(added) - Len(resources))
    /\ milestones' =
          IF v.status = 200
          THEN Append(milestones,
                      [id |-> Len(milestones) + 1, user_id |-> uid,
                       what_learned |-> learned, source |-> source,
                       hours_invested |-> hours, month_year |-> now])
          ELSE milestones
    /\ resources' = IF v.status = 200 THEN added ELSE resources
    /\ resp' = Answer("create_milestone",
                      MilestoneStatus(tok, source, learned), FALSE)
    /\ UNCHANGED <<users, employee_profiles, learning_goals, bookmarks,
                   badge_generations, admin_actions, nextToken,
                   rest>>

\* db.milestones.find({"user_id": uid})
MilestonesOf(uid) ==
    LET Owned(m) == m.user_id = uid IN SelectSeq(milestones, Owned)

get_milestones(tok) ==
    LET v == verify_user_session(tok) IN
    /\ resp' = IF v.status = 200
               THEN [Answer("get_milestones", 200, FALSE) EXCEPT
                        !.body.milestones =
                           NewestFirst(MilestonesOf(users[v.user].id))]
               ELSE Answer("get_milestones", v.status, FALSE)
    /\ UNCHANGED <<store, nextToken, rest>>

(* ------------------------- /resources and /peers ----------------------- *)
\* the query with the category test only
ApprovedQuery_category_only(category) ==
    LET Match(r) == category # "" => r.category = category
    IN SelectSeq(resources, Match)

\* db.resources.find(query): {"approved": True}, and the category when the
\* parameter is truthy
ApprovedQuery(category) ==
    LET Match(r) ==
            /\ r.approved = TRUE
            /\ category # "" => r.category = category
    IN SelectSeq(resources, Match)

get_approved_resources(tok, category) ==
    LET v == verify_user_session(tok)
        listing == NewestFirst(ApprovedQuery(category))
    IN
    /\ resp' = IF v.status = 200
               THEN [Answer("get_resources", 200, FALSE)
                        EXCEPT !.body.resources = listing]
               ELSE Answer("get_resources", v.status, FALSE)
    /\ UNCHANGED <<store, nextToken, rest>>

\* db.employee_profiles.find({"user_id": {"$ne": uid}}), each profile cut
\* down to the fields shown to peers (its recent milestones are left out)
PeersOf(uid) ==
    LET Other(p) == p.user_id # uid
        others_profiles == SelectSeq(employee_profiles, Other)
    IN [i \in 1 .. Len(others_profiles) |->
           [id |-> others_profiles[i].id,
            department |-> others_profiles[i].department]]

get_peer_profiles(tok) ==
    LET v == verify_user_session(tok) IN
    /\ resp' = IF v.status = 200
               THEN [Answer("get_peers", 200, FALSE) EXCEPT
                        !.body.peers = PeersOf(users[v.user].id)]
               ELSE Answer("get_peers", v.status, FALSE)
    /\ UNCHANGED <<store, nextToken, rest>>

(* ------------------------------ /bookmarks ----------------------------- *)
\* the answer with the existence check left out
BookmarkStatus_never_conflict(tok, user_id) == verify_user_session(tok).status

\* the answer of POST /bookmarks/{user_id}: 400 "Already bookmarked" when
\* find_one returns a row of the pair
BookmarkStatus(tok, user_id) ==
    LET v == verify_user_session(tok)
        uid == IF v.user # 0 THEN users[v.user].id ELSE 0
        Same(b) == b.user_id = uid /\ b.bookmarked_user_id = user_id
    IN
    IF v.status # 200 THEN v.status
    ELSE IF FindOne(bookmarks, Same) # 0 THEN 400
    ELSE 200

bookmark_user(tok, user_id) ==
    LET v == verify_user_session(tok)
        uid == IF v.user # 0 THEN users[v.user].id ELSE 0
        st == BookmarkStatus(tok, user_id)
    IN
    /\ st = 200 => Room(1)
    /\ bookmarks' =
          IF st = 200
          THEN Append(bookmarks,
                      [user_id |-> uid, bookmarked_user_id |-> user_id])
          ELSE bookmarks
    /\ resp' = Answer("bookmark", st, FALSE)
    /\ UNCHANGED <<users, employee_profiles, learning_goals, milestones,
                   resources, badge_generations, admin_actions, nextToken,
                   rest>>

(* ------------------------------ text helpers --------------------------- *)
\* str.strip(): leading and trailing whitespace removed
Whitespace == {" ", "\n"}

RECURSIVE LStrip(_)
LStrip(t) ==
    IF t # <<>> /\ Head(t) \in Whitespace THEN LStrip(Tail(t)) ELSE t

Reverse(t) == [i \in 1 .. Len(t) |-> t[Len(t) + 1 - i]]

Strip(t) == Reverse(LStrip(Reverse(LStrip(t))))

(* ----------------------------- admin routes ---------------------------- *)
\* the audit row an admin route appends
AdminAction(user, action) ==
    [admin_id |-> users[user].id, admin_name |-> users[user].name,
     action |-> action]

\* an admin report that reads the store and appends its audit row
AdminView(op, action, tok) ==
    LET v == verify_admin(tok) IN
    /\ v.status = 200 => Room(1)
    /\ admin_actions' =
          IF v.status = 200
          THEN Append(admin_actions, AdminAction(v.user, action))
          ELSE admin_actions
    /\ resp' = Answer(op, v.status, FALSE)
    /\ UNCHANGED <<users, employee_profiles, learning_goals, milestones,
                   resources, bookmarks, badge_generations, nextToken,
                   rest>>

\* the pipeline stage without its filter: every milestone passes
MatchMonth_any_month(month) == milestones

\* {"$match": {"month_year": month}} over db.milestones
MatchMonth(month) ==
    LET InMonth(m) == m.month_year = month IN SelectSeq(milestones, InMonth)

\* {"$group": {"_id": "$user_id", "total_hours": {"$sum":
\* "$hours_invested"}}}: each user's total over rows lo .. hi, as a function
\* of the user ids met there (the rows are halved rather than walked one by
\* one, which is the same sum)
RECURSIVE GroupRange(_, _, _)
GroupRange(rows, lo, hi) ==
    IF lo > hi THEN [u \in {} |-> 0]
    ELSE IF lo = hi
    THEN [u \in {rows[lo].user_id} |-> rows[lo].hours_invested]
    ELSE LET mid == (lo + hi) \div 2
             a == GroupRange(rows, lo, mid)
             b == GroupRange(rows, mid + 1, hi)
         IN [u \in DOMAIN a \cup DOMAIN b |->
                (IF u \in DOMAIN a THEN a[u] ELSE 0)
                + (IF u \in DOMAIN b THEN b[u] ELSE 0)]

GroupByUser(rows) == GroupRange(rows, 1, Len(rows))

\* {"$group": {"_id": None, "total_hours": {"$sum": "$hours_invested"}}}:
\* the sum over rows lo .. hi
RECURSIVE SumRange(_, _, _)
SumRange(rows, lo, hi) ==
    IF lo > hi THEN 0
    ELSE IF lo = hi THEN rows[lo].hours_invested
    ELSE LET mid == (lo + hi) \div 2
         IN SumRange(rows, lo, mid) + SumRange(rows, mid + 1, hi)

\* monthly_hours_result[0]["total_hours"] if monthly_hours_result else 0:
\* the pipeline yields no group when no row passed the filter
MonthlyLearningHours ==
    LET rows == MatchMonth(now) IN
    IF rows = <<>> THEN 0 ELSE SumRange(rows, 1, Len(rows))

\* the length to_list is given for the users meeting the target
TargetListLength == 1000

\* the monthly target, in hours
TargetHours == 6

\* len(aggregate(...).to_list(1000)): the groups whose total is at least
\* the target, of which to_list returns no more than its length
EmployeesMeetingTarget ==
    LET totals == GroupByUser(MatchMonth(now))
        met == {u \in DOMAIN totals : totals[u] >= TargetHours}
    IN IF Cardinality(met) > TargetListLength THEN TargetListLength
       ELSE Cardinality(met)

get_admin_stats(tok) ==
    LET v == verify_admin(tok) IN
    /\ v.status = 200 => Room(1)
    /\ admin_actions' =
          IF v.status = 200
          THEN Append(admin_actions,
                      AdminAction(v.user, "view_enhanced_stats"))
          ELSE admin_actions
    /\ resp' =
          IF v.status = 200
          THEN [Answer("admin_stats", 200, FALSE) EXCEPT
                   !.body.monthly_learning_hours = MonthlyLearningHours,
                   !.body.employees_meeting_target = EmployeesMeetingTarget]
          ELSE Answer("admin_stats", v.status, FALSE)
    /\ UNCHANGED <<users, employee_profiles, learning_goals, milestones,
                   resources, bookmarks, badge_generations, nextToken, rest>>

\* the query without its filter
PendingQuery_every_resource == resources

\* db.resources.find({"approved": False})
PendingQuery ==
    LET Pending(r) == r.approved = FALSE IN SelectSeq(resources, Pending)

get_pending_resources(tok) ==
    LET v == verify_admin(tok) IN
    /\ v.status = 200 => Room(1)
    /\ admin_actions' =
          IF v.status = 200
          THEN Append(admin_actions,
                      AdminAction(v.user, "view_pending_resources"))
          ELSE admin_actions
    /\ resp' =
          IF v.status = 200
          THEN [Answer("admin_pending", 200, FALSE) EXCEPT
                   !.body.resources = NewestFirst(PendingQuery)]
          ELSE Answer("admin_pending", v.status, FALSE)
    /\ UNCHANGED <<users, employee_profiles, learning_goals, milestones,
                   resources, bookmarks, badge_generations, nextToken, rest>>

\* $toLower of one word of a text
ToLower(word) == IF word = "TLA" THEN "tla" ELSE word

\* {"$toLower": {"$trim": {"input": "$what_learned"}}}
Skill(what_learned) ==
    LET trimmed == Strip(what_learned)
    IN [i \in 1 .. Len(trimmed) |-> ToLower(trimmed[i])]

\* $lookup of the employee_profiles with the milestone's user_id, then
\* $unwind of the matches: one document for each milestone and each profile
\* of its user, and none for a milestone whose user has no profile
Unwound ==
    {<<i, j>> \in (1 .. Len(milestones)) \X (1 .. Len(employee_profiles)) :
        milestones[i].user_id = employee_profiles[j].user_id}

\* the first $group: the documents of one skill and one month
SkillMonthGroup(skill, month) ==
    {d \in Unwound : /\ Skill(milestones[d[1]].what_learned) = skill
                     /\ milestones[d[1]].month_year = month}

\* the number of skills the trend keeps
SkillsLimit == 20

\* $sort by total descending and $limit: the skills of the greatest totals
TopSkills(groups) ==
    IF Cardinality(groups) <= SkillsLimit THEN groups
    ELSE CHOOSE top \in SUBSET groups :
            /\ Cardinality(top) = SkillsLimit
            /\ \A a \in top, b \in groups \ top :
                  a.total_count >= b.total_count

\* skills_trends: for each skill among the documents, its count per month
\* and its total
SkillsTrends ==
    LET skills == {Skill(milestones[d[1]].what_learned) : d \in Unwound}
        months(skill) ==
            {milestones[d[1]].month_year :
                d \in {e \in Unwound :
                          Skill(milestones[e[1]].what_learned) = skill}}
        monthly(skill) ==
            {[month |-> m, count |-> Cardinality(SkillMonthGroup(skill, m))] :
                m \in months(skill)}
        total(skill) ==
            Cardinality({d \in Unwound :
                            Skill(milestones[d[1]].what_learned) = skill})
    IN TopSkills({[skill |-> sk, total_count |-> total(sk),
                   monthly_data |-> monthly(sk)] : sk \in skills})

get_learning_analytics(tok) ==
    LET v == verify_admin(tok) IN
    /\ v.status = 200 => Room(1)
    /\ admin_actions' =
          IF v.status = 200
          THEN Append(admin_actions,
                      AdminAction(v.user, "view_learning_analytics"))
          ELSE admin_actions
    /\ resp' =
          IF v.status = 200
          THEN [Answer("admin_analytics", 200, FALSE) EXCEPT
                   !.body.skills_trends = SkillsTrends]
          ELSE Answer("admin_analytics", v.status, FALSE)
    /\ UNCHANGED <<users, employee_profiles, learning_goals, milestones,
                   resources, bookmarks, badge_generations, nextToken, rest>>

get_all_users(tok) == AdminView("admin_users", "view_users", tok)

get_all_badge_generations(tok) ==
    AdminView("admin_badges", "view_badges", tok)

\* /admin/actions reads the audit log and appends nothing
get_admin_actions(tok) ==
    LET v == verify_admin(tok) IN
    /\ resp' = Answer("admin_actions", v.status, FALSE)
    /\ UNCHANGED <<store, nextToken, rest>>

approve_resource(tok, resource_id) ==
    LET v == verify_admin(tok)
        uid == IF v.user # 0 THEN users[v.user].id ELSE 0
        HasId(r) == r.id = resource_id
        Approve(r) == [r EXCEPT !.approved = TRUE,
                                !.approved_by_admin_id = uid]
        st == IF v.status # 200 THEN v.status
              ELSE IF FindOne(resources, HasId) = 0 THEN 404
              ELSE 200
    IN
    /\ st = 200 => Room(1)
    /\ resources' =
          IF v.status = 200 THEN UpdateOne(resources, HasId, Approve)
          ELSE resources
    /\ admin_actions' =
          IF st = 200
          THEN Append(admin_actions, AdminAction(v.user, "approve_resource"))
          ELSE admin_actions
    /\ resp' = Answer("admin_approve", st, FALSE)
    /\ UNCHANGED <<users, employee_profiles, learning_goals, milestones,
                   bookmarks, badge_generations, nextToken, rest>>

(* ------------------------------- /generate ----------------------------- *)
\* sep in t
Contains(t, sep) == \E i \in 1 .. Len(t) : t[i] = sep

\* t.split(sep): the pieces of t between the occurrences of sep
RECURSIVE Split(_, _)
Split(t, sep) ==
    IF ~Contains(t, sep) THEN <<t>>
    ELSE LET i == CHOOSE k \in 1 .. Len(t) :
                     t[k] = sep /\ \A j \in 1 .. (k - 1) : t[j] # sep
         IN <<SubSeq(t, 1, i - 1)>> \o Split(SubSeq(t, i + 1, Len(t)), sep)

\* t.replace(marker, ''): every occurrence removed
Replace(t, marker) ==
    LET Kept(x) == x # marker IN SelectSeq(t, Kept)

\* t.startswith(marker)
StartsWith(t, marker) == t # <<>> /\ Head(t) = marker

\* the loop over the lines of the reply: a line that starts with a marker
\* sets that field to the rest of that line, a later one overwriting an
\* earlier one
RECURSIVE ScanLines(_, _, _)
ScanLines(lines, badge_text, linkedin_post) ==
    IF lines = <<>>
    THEN [badge_text |-> badge_text, linkedin_post |-> linkedin_post]
    ELSE LET line == Head(lines) IN
         IF StartsWith(line, BADGE)
         THEN ScanLines(Tail(lines), Strip(Replace(line, BADGE)),
                        linkedin_post)
         ELSE IF StartsWith(line, LINKEDIN_POST)
         THEN ScanLines(Tail(lines), badge_text,
                        Strip(Replace(line, LINKEDIN_POST)))
         ELSE ScanLines(Tail(lines), badge_text, linkedin_post)

\* the parse that takes a reply without markers as the post
ParseReply_unmarked_accepted(generated_text) ==
    LET scan == ScanLines(Split(Strip(generated_text), "\n"), <<>>, <<>>)
    IN IF scan.badge_text # <<>> /\ scan.linkedin_post # <<>>
       THEN [ok |-> TRUE, badge_text |-> scan.badge_text,
             linkedin_post |-> scan.linkedin_post]
       ELSE [ok |-> TRUE, badge_text |-> <<"w">>,
             linkedin_post |-> Strip(generated_text)]

\* the two fields parsed from the reply: the line scan; when it leaves a
\* field empty, the split on the LINKEDIN_POST: marker if both markers are
\* in the text; otherwise the parse error
ParseReply(generated_text) ==
    LET scan == ScanLines(Split(Strip(generated_text), "\n"), <<>>, <<>>)
        parts == Split(generated_text, LINKEDIN_POST)
    IN IF scan.badge_text # <<>> /\ scan.linkedin_post # <<>>
       THEN [ok |-> TRUE, badge_text |-> scan.badge_text,
             linkedin_post |-> scan.linkedin_post]
       ELSE IF Contains(generated_text, BADGE)
               /\ Contains(generated_text, LINKEDIN_POST)
       THEN [ok |-> TRUE, badge_text |-> Strip(Replace(parts[1], BADGE)),
             linkedin_post |-> Strip(parts[2])]
       ELSE [ok |-> FALSE, badge_text |-> <<>>, linkedin_post |-> <<>>]

\* the colour scheme of each difficulty
difficulty_colors ==
    [Easy |-> [primary |-> "#00FF88", secondary |-> "#00CC66",
               accent |-> "#1C1C1C", glow |-> "#00FFAA", wing |-> "#90EE90"],
     Moderate |-> [primary |-> "#FFAA00", secondary |-> "#FF8800",
                   accent |-> "#222222", glow |-> "#FFDD55",
                   wing |-> "#FFD700"],
     Hard |-> [primary |-> "#FF3366", secondary |-> "#FF1144",
               accent |-> "#2A2A2A", glow |-> "#FF6688", wing |-> "#FF69B4"]]

\* the stars of each difficulty
difficulty_symbols == [Easy |-> "*", Moderate |-> "**", Hard |-> "***"]

\* the lookup that falls back on the last entry instead of the default
DictGet_last_entry(dict, key, default) ==
    IF key \in DOMAIN dict THEN dict[key] ELSE dict["Hard"]

\* dict.get(key, default): keys are compared as they are, case included
DictGet(dict, key, default) ==
    IF key \in DOMAIN dict THEN dict[key] ELSE default

\* generate_badge_svg: the template filled, in the order of the template,
\* with the colours and the stars of the difficulty (those of "Easy" for a
\* difficulty that is no key), the employee name and the difficulty; the
\* badge text is not drawn
generate_badge_svg(employee_name, badge_text, difficulty) ==
    LET colors == DictGet(difficulty_colors, difficulty,
                          difficulty_colors["Easy"])
        symbol == DictGet(difficulty_symbols, difficulty, "*")
    IN <<"<svg", colors.primary, colors.secondary, colors.wing,
         colors.accent, colors.glow, symbol, employee_name, difficulty,
         "</svg>">>

\* base64.b64encode(...).decode(): the encoded text
Base64(text) == <<"base64">> \o text

\* the step at which the handler stops: every exception raised inside the
\* handler, its own HTTPException(401) included, is caught by the outer
\* "except Exception" and answered 500
GenerateStage(tok, upstream, fault) ==
    IF ~GEMINI_API_KEY THEN "no_key"
    ELSE IF tok = NoToken THEN "no_token"
    ELSE IF UserByToken(tok) = 0 THEN "invalid_session"
    ELSE IF upstream.kind # "text" THEN upstream.kind
    ELSE IF ~ParseReply(upstream.text).ok THEN "unparsable"
    ELSE IF fault = "insert" THEN "insert_failed"
    ELSE IF fault = "update" THEN "update_failed"
    ELSE "stored"

\* the status had a failed store write been logged and passed over
GenerateStatus_store_failure_ignored(tok, upstream, fault) ==
    IF GenerateStage(tok, upstream, fault)
          \in {"stored", "insert_failed", "update_failed"}
    THEN 200 ELSE 500

GenerateStatus(tok, upstream, fault) ==
    IF GenerateStage(tok, upstream, fault) = "stored" THEN 200 ELSE 500

\* the row replaced by a document rebuilt from the User model, whose role
\* defaults to "user", instead of updated in place
GenerateUsers_replace_row(uid) ==
    LET HasId(u) == u.id = uid
        Rebuilt(u) == [u EXCEPT !.role = "user",
                                !.total_badges_generated = @ + 1]
    IN UpdateOne(users, HasId, Rebuilt)

\* the increment applied to every row instead of the row of the id
GenerateUsers_every_row(uid) ==
    [i \in 1 .. Len(users) |->
        [users[i] EXCEPT !.total_badges_generated = @ + 1]]

\* db.users.update_one({"id": uid}, {"$inc": {"total_badges_generated": 1}})
GenerateUsers(uid) ==
    LET HasId(u) == u.id = uid
        Inc(u) == [u EXCEPT !.total_badges_generated = @ + 1]
    IN UpdateOne(users, HasId, Inc)

\* GenerateResponse(badgeUrl, linkedinPost)
GenerateResponse(request, upstream) ==
    LET parsed == ParseReply(upstream.text)
        badge_svg == generate_badge_svg(request.employeeName,
                                        parsed.badge_text,
                                        request.difficulty)
    IN [NoBody EXCEPT !.badgeUrl = <<SvgDataUri>> \o Base64(badge_svg),
                      !.linkedinPost = parsed.linkedin_post]

generate_badge_and_post(tok, request, upstream, fault) ==
    LET stage == GenerateStage(tok, upstream, fault)
        status == GenerateStatus(tok, upstream, fault)
        user == UserByToken(tok)
        uid == IF stage \in {"no_key", "no_token", "invalid_session"}
               THEN 0 ELSE users[user].id
    IN
    /\ stage \in {"stored", "update_failed"} => Room(1)
    /\ badge_generations' =
          IF stage \in {"stored", "update_failed"}
          THEN Append(badge_generations,
                      [user_id |-> uid, user_name |-> users[user].name,
                       employee_name |-> request.employeeName,
                       difficulty |-> request.difficulty])
          ELSE badge_generations
    /\ users' = IF stage = "stored" THEN GenerateUsers(uid) ELSE users
    /\ resp' =
          [Answer("generate", status,
                  stage \notin {"no_key", "no_token", "invalid_session"})
              EXCEPT !.reply = IF stage \in {"no_key", "no_token",
                                             "invalid_session"}
                               THEN <<>> ELSE upstream.text,
                     \* the step at which the handler stopped, which the
                     \* detail of its error names
                     !.detail = stage,
                     !.body = IF status = 200
                              THEN GenerateResponse(request, upstream)
                              ELSE NoBody]
    /\ UNCHANGED <<employee_profiles, learning_goals, milestones, resources,
                   bookmarks, admin_actions, nextToken, rest>>

(* -------------------------------- the clock ---------------------------- *)
\* months the clock passes through
MaxMonth == 2

\* datetime.utcnow() passes into the next month
Tick ==
    /\ now < MaxMonth
    /\ now' = now + 1
    /\ UNCHANGED <<store, nextToken, GEMINI_API_KEY, budget, inflight, resp>>

Next ==
    \/ \E name \in Names : login_user(name)
    \/ \E tok \in Cookies : logout_user(tok)
    \/ \E tok \in Cookies : get_current_user(tok)
    \/ \E tok \in Cookies, dept \in Departments :
          create_employee_profile(tok, dept)
    \/ \E tok \in Cookies : get_employee_profile(tok)
    \/ \E tok \in Cookies, dept \in Departments :
          update_employee_profile(tok, dept)
    \/ \E tok \in Cookies, title \in Titles : create_learning_goal(tok, title)
    \/ \E tok \in Cookies : get_learning_goals(tok)
    \/ \E tok \in Cookies, goal_id \in PathIds, title \in Titles :
          update_learning_goal(tok, goal_id, title)
    \/ \E tok \in Cookies, source \in Sources, learned \in Learned,
          hours \in Hours :
          create_milestone(tok, source, learned, hours)
    \/ \E tok \in Cookies : get_milestones(tok)
    \/ \E tok \in Cookies, category \in Categories :
          get_approved_resources(tok, category)
    \/ \E tok \in Cookies : get_peer_profiles(tok)
    \/ \E tok \in Cookies, user_id \in PathIds : bookmark_user(tok, user_id)
    \/ \E tok \in Cookies : get_admin_stats(tok)
    \/ \E tok \in Cookies : get_pending_resources(tok)
    \/ \E tok \in Cookies, resource_id \in PathIds :
          approve_resource(tok, resource_id)
    \/ \E tok \in Cookies : get_learning_analytics(tok)
    \/ \E tok \in Cookies : get_all_users(tok)
    \/ \E tok \in Cookies : get_all_badge_generations(tok)
    \/ \E tok \in Cookies : get_admin_actions(tok)
    \/ \E tok \in Cookies, request \in Requests, upstream \in Upstream,
          fault \in StoreFaults :
          generate_badge_and_post(tok, request, upstream, fault)

Spec == Init /\ [][Next]_vars

\* the session endpoints alone, over the wider set of login names
NextLogin ==
    \/ \E name \in LoginNames : login_user(name)
    \/ \E tok \in Cookies : logout_user(tok)
    \/ \E tok \in Cookies : get_current_user(tok)

SpecLogin == Init /\ [][NextLogin]_vars

\* the life of a resource suggestion: added by a milestone, approved by the
\* admin, listed to the users (milestones with a blank text suggest no
\* resource and are left out)
MaxResourceWrites == 8

InitResources == Start(MaxResourceWrites)

NextResources ==
    \/ \E name \in Names : login_user(name)
    \/ \E tok \in Cookies, source \in Sources,
          learned \in Learned \ {<<>>}, hours \in Hours :
          create_milestone(tok, source, learned, hours)
    \/ \E tok \in Cookies, resource_id \in PathIds :
          approve_resource(tok, resource_id)
    \/ \E tok \in Cookies, category \in Categories :
          get_approved_resources(tok, category)

SpecResources == InitResources /\ [][NextResources]_vars

\* two signed-in employees, each creating, changing and listing goals,
\* recording and listing milestones (of a blank text, which suggest no
\* resource), creating a profile and listing the peers
MaxIsolationWrites == 3

InitIsolation ==
    /\ users = <<[id |-> 1, name |-> "sarah j.", role |-> "user",
                  session_token |-> 1, total_badges_generated |-> 0],
                 [id |-> 2, name |-> "arush t.", role |-> "user",
                  session_token |-> 2, total_badges_generated |-> 0]>>
    /\ employee_profiles = <<>>
    /\ learning_goals = <<>>
    /\ milestones = <<>>
    /\ resources = <<>>
    /\ bookmarks = <<>>
    /\ badge_generations = <<>>
    /\ admin_actions = <<>>
    /\ nextToken = 3
    /\ GEMINI_API_KEY = TRUE
    /\ now = 1
    /\ budget = 2 + MaxIsolationWrites
    /\ inflight = [w \in Workers |-> Idle]
    /\ resp = Answer("login", 200, FALSE)

NextIsolation ==
    \/ \E tok \in Minted, title \in Titles : create_learning_goal(tok, title)
    \/ \E tok \in Minted : get_learning_goals(tok)
    \/ \E tok \in Minted, goal_id \in PathIds, title \in Titles :
          update_learning_goal(tok, goal_id, title)
    \/ \E tok \in Minted : create_milestone(tok, "s1", <<>>, 7)
    \/ \E tok \in Minted : get_milestones(tok)
    \/ \E tok \in Minted : create_employee_profile(tok, "Eng")
    \/ \E tok \in Minted : get_peer_profiles(tok)

SpecIsolation == InitIsolation /\ [][NextIsolation]_vars

\* approval: the admin and one employee are signed in; milestones suggest
\* resources, which the admin approves and both kinds of listing show
MaxApprovalWrites == 6

InitApproval ==
    /\ users = <<[id |-> 1, name |-> "Arush T.", role |-> "admin",
                  session_token |-> 1, total_badges_generated |-> 0],
                 [id |-> 2, name |-> "arush t.", role |-> "user",
                  session_token |-> 2, total_badges_generated |-> 0]>>
    /\ employee_profiles = <<>>
    /\ learning_goals = <<>>
    /\ milestones = <<>>
    /\ resources = <<>>
    /\ bookmarks = <<>>
    /\ badge_generations = <<>>
    /\ admin_actions = <<[admin_id |-> 1, admin_name |-> "Arush T.",
                          action |-> "login"]>>
    /\ nextToken = 3
    /\ GEMINI_API_KEY = TRUE
    /\ now = 1
    /\ budget = 3 + MaxApprovalWrites
    /\ inflight = [w \in Workers |-> Idle]
    /\ resp = Answer("login", 200, FALSE)

NextApproval ==
    \/ \E source \in Sources : create_milestone(2, source, <<"tla">>, 7)
    \/ \E tok \in Minted, resource_id \in PathIds :
          approve_resource(tok, resource_id)
    \/ \E tok \in Minted, category \in Categories :
          get_approved_resources(tok, category)
    \/ \E tok \in Minted : get_pending_resources(tok)

SpecApproval == InitApproval /\ [][NextApproval]_vars

\* POST /generate over the replies the generator may give: texts of up to
\* MaxReplyLines lines, each line of one of the shapes "w", "BADGE: w",
\* "LINKEDIN_POST: w" and "BADGE:".  The run starts when one employee has
\* logged in, and no store write fails.
MaxReplyLines == 3
MaxGenerateWrites == 1

LineShapes ==
    {<<"w">>, <<BADGE, " ", "w">>, <<LINKEDIN_POST, " ", "w">>, <<BADGE>>}

RECURSIVE JoinLines(_)
JoinLines(lines) ==
    IF lines = <<>> THEN <<>>
    ELSE IF Len(lines) = 1 THEN lines[1]
    ELSE lines[1] \o <<"\n">> \o JoinLines(Tail(lines))

Replies ==
    {JoinLines(lines) :
        lines \in UNION {[1 .. n -> LineShapes] : n \in 0 .. MaxReplyLines}}

GenerateUpstream ==
    {NoReply("non200"), NoReply("invalid")} \cup {Reply(t) : t \in Replies}

InitGenerate ==
    /\ users = <<[id |-> 1, name |-> "arush t.", role |-> "user",
                  session_token |-> 1, total_badges_generated |-> 0]>>
    /\ employee_profiles = <<>>
    /\ learning_goals = <<>>
    /\ milestones = <<>>
    /\ resources = <<>>
    /\ bookmarks = <<>>
    /\ badge_generations = <<>>
    /\ admin_actions = <<>>
    /\ nextToken = 2
    /\ GEMINI_API_KEY \in BOOLEAN
    /\ now = 1
    /\ budget = 1 + MaxGenerateWrites
    /\ inflight = [w \in Workers |-> Idle]
    /\ resp = Answer("login", 200, FALSE)

NextGenerate ==
    \E tok \in Cookies, request \in Requests, upstream \in GenerateUpstream :
       generate_badge_and_post(tok, request, upstream, "none")

SpecGenerate == InitGenerate /\ [][NextGenerate]_vars

\* one signed-in employee asking for badges of every difficulty: the three
\* known ones, two of them in another casing, the empty one and another
\* word; the generator answers in the requested format
MaxBadgeWrites == 2

Difficulties == {"Easy", "Moderate", "Hard", "easy", "HARD", "", "Expert"}

BadgeRequests ==
    {[employeeName |-> name, learning |-> "tla", difficulty |-> d] :
        name \in {"Sarah Johnson", "arush t."}, d \in Difficulties}

InitBadge ==
    /\ users = <<[id |-> 1, name |-> "arush t.", role |-> "user",
                  session_token |-> 1, total_badges_generated |-> 0]>>
    /\ employee_profiles = <<>>
    /\ learning_goals = <<>>
    /\ milestones = <<>>
    /\ resources = <<>>
    /\ bookmarks = <<>>
    /\ badge_generations = <<>>
    /\ admin_actions = <<>>
    /\ nextToken = 2
    /\ GEMINI_API_KEY = TRUE
    /\ now = 1
    /\ budget = 1 + MaxBadgeWrites
    /\ inflight = [w \in Workers |-> Idle]
    /\ resp = Answer("login", 200, FALSE)

NextBadge ==
    \E request \in BadgeRequests :
       generate_badge_and_post(
          1, request,
          Reply(<<BADGE, " ", "w", "\n", LINKEDIN_POST, " ", "w">>), "none")

SpecBadge == InitBadge /\ [][NextBadge]_vars

(* ------------------- handlers interleaved at their awaits -------------- *)
\* Each handler awaits its find_one and then its insert_one, and another
\* request may run between the two.  The four handlers that insert after an
\* existence check are split at that point: the first step runs the
\* handler up to the check and, when the check finds nothing, leaves the
\* request in flight; the second step runs the rest of the handler.

\* the writes the requests in flight are still to make
Reserved == Cardinality({w \in Workers : inflight[w] # Idle})

\* POST /auth/login up to find_one({"name": name})
login_find(w, name) ==
    LET found == UserByName(name) IN
    /\ inflight[w] = Idle
    /\ Room(Reserved + (IF NewRole(name) = "admin" THEN 2 ELSE 1))
    /\ inflight' = [inflight EXCEPT ![w] =
                       [op |-> "login", name |-> name,
                        user |-> IF found = 0 THEN 0 ELSE users[found].id,
                        arg |-> IF found = 0 THEN NewRole(name)
                                ELSE users[found].role,
                        target |-> 0]]
    /\ UNCHANGED <<store, nextToken, GEMINI_API_KEY, now, budget, resp>>

\* the insert made only when no row has the name by then, as a unique index
\* on name with an upsert would make it
LoginWriteUsers_unique_name(w) ==
    LET req == inflight[w]
        found == UserByName(req.name)
        withRow ==
            IF req.user # 0 \/ found # 0 THEN users
            ELSE Append(users, [id |-> Len(users) + 1, name |-> req.name,
                                role |-> req.arg,
                                session_token |-> NoToken,
                                total_badges_generated |-> 0])
        uid == IF req.user # 0 THEN req.user
               ELSE IF found # 0 THEN users[found].id
               ELSE Len(users) + 1
        HasId(u) == u.id = uid
        SetToken(u) == [u EXCEPT !.session_token = nextToken]
    IN UpdateOne(withRow, HasId, SetToken)

\* db.users after the rest of the login: the insert when the check had
\* found no row, and the token set on the row of the user's id
LoginWriteUsers(w) ==
    LET req == inflight[w]
        withRow ==
            IF req.user # 0 THEN users
            ELSE Append(users, [id |-> Len(users) + 1, name |-> req.name,
                                role |-> req.arg,
                                session_token |-> NoToken,
                                total_badges_generated |-> 0])
        uid == IF req.user # 0 THEN req.user ELSE Len(users) + 1
        HasId(u) == u.id = uid
        SetToken(u) == [u EXCEPT !.session_token = nextToken]
    IN UpdateOne(withRow, HasId, SetToken)

\* POST /auth/login from the insert on
login_write(w) ==
    LET req == inflight[w]
        uid == IF req.user # 0 THEN req.user ELSE Len(users) + 1
    IN
    /\ req.op = "login"
    /\ users' = LoginWriteUsers(w)
    /\ nextToken' = nextToken + 1
    /\ admin_actions' =
          IF req.arg = "admin"
          THEN Append(admin_actions,
                      [admin_id |-> uid, admin_name |-> req.name,
                       action |-> "login"])
          ELSE admin_actions
    /\ inflight' = [inflight EXCEPT ![w] = Idle]
    /\ resp' = Answer("login", 200, FALSE)
    /\ UNCHANGED <<employee_profiles, learning_goals, milestones, resources,
                   bookmarks, badge_generations, GEMINI_API_KEY, now, budget>>

\* POST /profile up to find_one({"user_id": ...})
create_employee_profile_find(w, tok, dept) ==
    LET v == verify_user_session(tok)
        st == CreateProfileStatus(tok)
    IN
    /\ inflight[w] = Idle
    /\ st = 200 => Room(Reserved + 1)
    /\ inflight' =
          IF st = 200
          THEN [inflight EXCEPT ![w] =
                   [op |-> "create_profile", name |-> "",
                    user |-> users[v.user].id, arg |-> dept, target |-> 0]]
          ELSE inflight
    /\ resp' = IF st = 200 THEN resp
               ELSE Answer("create_profile", st, FALSE)
    /\ UNCHANGED <<store, nextToken, GEMINI_API_KEY, now, budget>>

\* POST /profile from insert_one on
create_employee_profile_insert(w) ==
    LET req == inflight[w] IN
    /\ req.op = "create_profile"
    /\ employee_profiles' =
          Append(employee_profiles,
                 [id |-> Len(employee_profiles) + 1, user_id |-> req.user,
                  department |-> req.arg])
    /\ inflight' = [inflight EXCEPT ![w] = Idle]
    /\ resp' = Answer("create_profile", 200, FALSE)
    /\ UNCHANGED <<users, learning_goals, milestones, resources, bookmarks,
                   badge_generations, admin_actions, nextToken,
                   GEMINI_API_KEY, now, budget>>

\* POST /bookmarks/{user_id} up to find_one
bookmark_user_find(w, tok, user_id) ==
    LET v == verify_user_session(tok)
        uid == IF v.user # 0 THEN users[v.user].id ELSE 0
        st == BookmarkStatus(tok, user_id)
    IN
    /\ inflight[w] = Idle
    /\ st = 200 => Room(Reserved + 1)
    /\ inflight' =
          IF st = 200
          THEN [inflight EXCEPT ![w] =
                   [op |-> "bookmark", name |-> "", user |-> uid,
                    arg |-> "", target |-> user_id]]
          ELSE inflight
    /\ resp' = IF st = 200 THEN resp ELSE Answer("bookmark", st, FALSE)
    /\ UNCHANGED <<store, nextToken, GEMINI_API_KEY, now, budget>>

\* POST /bookmarks/{user_id} from insert_one on
bookmark_user_insert(w) ==
    LET req == inflight[w] IN
    /\ req.op = "bookmark"
    /\ bookmarks' =
          Append(bookmarks,
                 [user_id |-> req.user, bookmarked_user_id |-> req.target])
    /\ inflight' = [inflight EXCEPT ![w] = Idle]
    /\ resp' = Answer("bookmark", 200, FALSE)
    /\ UNCHANGED <<users, employee_profiles, learning_goals, milestones,
                   resources, badge_generations, admin_actions, nextToken,
                   GEMINI_API_KEY, now, budget>>

\* POST /milestones up to the find_one({"url": ...}) of
\* auto_add_resource_from_milestone: the milestone is inserted, and the
\* request is answered here when the url is known or the text is blank
create_milestone_find(w, tok, source, learned, hours) ==
    LET v == verify_user_session(tok)
        uid == IF v.user # 0 THEN users[v.user].id ELSE 0
        adds == /\ v.status = 200
                /\ auto_add_resource_from_milestone(source, learned, uid)
                      # resources
    IN
    /\ inflight[w] = Idle
    /\ v.status = 200 => Room(Reserved + 1 + (IF adds THEN 1 ELSE 0))
    /\ milestones' =
          IF v.status = 200
          THEN Append(milestones,
                      [id |-> Len(milestones) + 1, user_id |-> uid,
                       what_learned |-> learned, source |-> source,
                       hours_invested |-> hours, month_year |-> now])
          ELSE milestones
    /\ inflight' =
          IF adds
          THEN [inflight EXCEPT ![w] =
                   [op |-> "add_resource", name |-> "", user |-> uid,
                    arg |-> source, target |-> 0]]
          ELSE inflight
    /\ resp' = IF adds THEN resp
               ELSE Answer("create_milestone", v.status, FALSE)
    /\ UNCHANGED <<users, employee_profiles, learning_goals, resources,
                   bookmarks, badge_generations, admin_actions, nextToken,
                   GEMINI_API_KEY, now, budget>>

\* POST /milestones from the insert_one of the resource on
create_milestone_insert(w) ==
    LET req == inflight[w] IN
    /\ req.op = "add_resource"
    /\ resources' =
          Append(resources,
                 [id |-> Len(resources) + 1, url |-> req.arg,
                  category |-> "General", added_by_user_id |-> req.user,
                  approved |-> FALSE, approved_by_admin_id |-> 0])
    /\ inflight' = [inflight EXCEPT ![w] = Idle]
    /\ resp' = Answer("create_milestone", 200, FALSE)
    /\ UNCHANGED <<users, employee_profiles, learning_goals, milestones,
                   bookmarks, badge_generations, admin_actions, nextToken,
                   GEMINI_API_KEY, now, budget>>

\* POST /generate up to insert_one: the session is verified, the generator
\* called, its reply parsed and the badge rendered; a request that fails
\* before its writes is answered here
generate_begin(w, tok, request, upstream) ==
    LET stage == GenerateStage(tok, upstream, "none")
        user == UserByToken(tok)
        waiting == {v \in Workers : inflight[v].op = "generate_insert"}
    IN
    /\ inflight[w] = Idle
    /\ stage = "stored" => Room(Cardinality(waiting) + 1)
    /\ inflight' =
          IF stage = "stored"
          THEN [inflight EXCEPT ![w] =
                   [op |-> "generate_insert", name |-> users[user].name,
                    user |-> users[user].id, arg |-> "", target |-> 0,
                    request |-> request, upstream |-> upstream]]
          ELSE inflight
    /\ resp' =
          IF stage = "stored" THEN resp
          ELSE [Answer("generate", 500,
                       stage \notin {"no_key", "no_token", "invalid_session"})
                   EXCEPT !.reply = IF stage \in {"no_key", "no_token",
                                                  "invalid_session"}
                                    THEN <<>> ELSE upstream.text,
                          !.detail = stage]
    /\ UNCHANGED <<store, nextToken, GEMINI_API_KEY, now, budget>>

\* POST /generate: db.badge_generations.insert_one
generate_insert(w) ==
    LET req == inflight[w] IN
    /\ req.op = "generate_insert"
    /\ badge_generations' =
          Append(badge_generations,
                 [user_id |-> req.user, user_name |-> req.name,
                  employee_name |-> req.request.employeeName,
                  difficulty |-> req.request.difficulty])
    /\ inflight' = [inflight EXCEPT ![w].op = "generate_inc"]
    /\ UNCHANGED <<users, employee_profiles, learning_goals, milestones,
                   resources, bookmarks, admin_actions, nextToken,
                   GEMINI_API_KEY, now, budget, resp>>

\* POST /generate from db.users.update_one on
generate_inc(w) ==
    LET req == inflight[w] IN
    /\ req.op = "generate_inc"
    /\ users' = GenerateUsers(req.user)
    /\ inflight' = [inflight EXCEPT ![w] = Idle]
    /\ resp' = [Answer("generate", 200, TRUE)
                  EXCEPT !.reply = req.upstream.text,
                         !.detail = "stored",
                         !.body = GenerateResponse(req.request, req.upstream)]
    /\ UNCHANGED <<employee_profiles, learning_goals, milestones, resources,
                   bookmarks, badge_generations, admin_actions, nextToken,
                   GEMINI_API_KEY, now, budget>>

\* two signed-in employees whose /generate requests two workers serve at
\* the same time, and who may sign out meanwhile; the generator answers in
\* the requested format
MaxCountWrites == 3

InitCount ==
    /\ users = <<[id |-> 1, name |-> "arush t.", role |-> "user",
                  session_token |-> 1, total_badges_generated |-> 0],
                 [id |-> 2, name |-> "sarah j.", role |-> "user",
                  session_token |-> 2, total_badges_generated |-> 0]>>
    /\ employee_profiles = <<>>
    /\ learning_goals = <<>>
    /\ milestones = <<>>
    /\ resources = <<>>
    /\ bookmarks = <<>>
    /\ badge_generations = <<>>
    /\ admin_actions = <<>>
    /\ nextToken = 3
    /\ GEMINI_API_KEY = TRUE
    /\ now = 1
    /\ budget = 2 + MaxCountWrites
    /\ inflight = [w \in Workers |-> Idle]
    /\ resp = Answer("login", 200, FALSE)

NextCount ==
    \/ \E w \in Workers, tok \in Minted, request \in Requests :
          generate_begin(
             w, tok, request,
             Reply(<<BADGE, " ", "w", "\n", LINKEDIN_POST, " ", "w">>))
    \/ \E w \in Workers : generate_insert(w)
    \/ \E w \in Workers : generate_inc(w)
    \/ \E tok \in Minted : logout_user(tok)

SpecCount == InitCount /\ [][NextCount]_vars

\* two workers serving one employee's requests: logins of one new name, a
\* profile, a bookmark of one user id and milestones of one source, each
\* kind of request made MaxRaceRequests times at most
MaxRaceWrites == 10
MaxRaceRequests == 2

\* another request of the kind may start: n requests of it have been served
Requestable(n, op) ==
    n + Cardinality({w \in Workers : inflight[w].op = op}) < MaxRaceRequests

InitRace == Start(MaxRaceWrites)

NextRace ==
    \/ \E w \in Workers :
          /\ Requestable(nextToken - 1, "login")
          /\ login_find(w, "arush t.")
    \/ \E w \in Workers : login_write(w)
    \/ \E w \in Workers, tok \in Minted :
          /\ Requestable(Len(employee_profiles), "create_profile")
          /\ create_employee_profile_find(w, tok, "Eng")
    \/ \E w \in Workers : create_employee_profile_insert(w)
    \/ \E w \in Workers, tok \in Minted :
          /\ Requestable(Len(bookmarks), "bookmark")
          /\ bookmark_user_find(w, tok, 1)
    \/ \E w \in Workers : bookmark_user_insert(w)
    \/ \E w \in Workers, tok \in Minted :
          /\ Len(milestones) < MaxRaceRequests
          /\ create_milestone_find(w, tok, "s1", <<"tla">>, 7)
    \/ \E w \in Workers : create_milestone_insert(w)

SpecRace == InitRace /\ [][NextRace]_vars

\* the monthly figures of /admin/stats: milestones of any hours are
\* recorded while the clock passes from one month into the next (their
\* text is blank, so that they suggest no resource)
MaxStatsWrites == 5

InitStats == Start(MaxStatsWrites)

NextStats ==
    \/ \E name \in Names : login_user(name)
    \/ \E tok \in Cookies, hours \in StatsHours :
          create_milestone(tok, "s1", <<>>, hours)
    \/ \E tok \in Cookies : get_admin_stats(tok)
    \/ Tick

SpecStats == InitStats /\ [][NextStats]_vars

\* the skill trend: the admin and one employee are signed in; profiles are
\* created and milestones recorded, whose texts are one skill in several
\* spellings, while the clock passes from one month into the next
MaxAnalyticsWrites == 5

SkillTexts == {<<"tla">>, <<"TLA">>, <<" ", "tla">>}

InitAnalytics ==
    /\ users = <<[id |-> 1, name |-> "Arush T.", role |-> "admin",
                  session_token |-> 1, total_badges_generated |-> 0],
                 [id |-> 2, name |-> "arush t.", role |-> "user",
                  session_token |-> 2, total_badges_generated |-> 0]>>
    /\ employee_profiles = <<>>
    /\ learning_goals = <<>>
    /\ milestones = <<>>
    /\ resources = <<>>
    /\ bookmarks = <<>>
    /\ badge_generations = <<>>
    /\ admin_actions = <<[admin_id |-> 1, admin_name |-> "Arush T.",
                          action |-> "login"]>>
    /\ nextToken = 3
    /\ GEMINI_API_KEY = TRUE
    /\ now = 1
    /\ budget = 3 + MaxAnalyticsWrites
    /\ inflight = [w \in Workers |-> Idle]
    /\ resp = Answer("login", 200, FALSE)

NextAnalytics ==
    \/ \E tok \in Minted : create_employee_profile(tok, "Eng")
    \/ \E tok \in Minted, learned \in SkillTexts :
          create_milestone(tok, "s1", learned, 7)
    \/ \E tok \in Minted : get_learning_analytics(tok)
    \/ Tick

SpecAnalytics == InitAnalytics /\ [][NextAnalytics]_vars

\* the monthly figures over a large staff: the run starts when n employees
\* have each logged in, recorded one milestone of h hours this month and
\* logged out (their spent session tokens are bound to no user, as
\* BogusToken is); n goes from none to past the length of the list the
\* stats handler reads
PopulationMargin == 1
MaxTargetWrites == 3

Populations ==
    (0 .. PopulationMargin)
    \cup ((TargetListLength - 1) .. (TargetListLength + PopulationMargin))

InitTarget ==
    \E n \in Populations, h \in StatsHours :
       /\ users = [i \in 1 .. n |->
                      [id |-> i, name |-> ToString(i), role |-> "user",
                       session_token |-> NoToken,
                       total_badges_generated |-> 0]]
       /\ milestones = [i \in 1 .. n |->
                           [id |-> i, user_id |-> i, what_learned |-> <<>>,
                            source |-> "s1", hours_invested |-> h,
                            month_year |-> 1]]
       /\ employee_profiles = <<>>
       /\ learning_goals = <<>>
       /\ resources = <<>>
       /\ bookmarks = <<>>
       /\ badge_generations = <<>>
       /\ admin_actions = <<>>
       /\ nextToken = 1
       /\ GEMINI_API_KEY \in BOOLEAN
       /\ now = 1
       /\ budget = n + MaxTargetWrites
       /\ inflight = [w \in Workers |-> Idle]
       /\ resp = Answer("none", 0, FALSE)

\* the admin logs in and reads the stats; milestones are still recorded
NextTarget ==
    \/ login_user("Arush T.")
    \/ \E tok \in Cookies, hours \in StatsHours :
          create_milestone(tok, "s1", <<>>, hours)
    \/ \E tok \in Cookies : get_admin_stats(tok)
    \/ Tick

SpecTarget == InitTarget /\ [][NextTarget]_vars

(* ======================= vocabulary of the properties ================== *)
\* the user rows that store token t
Holders(t) == {i \in 1 .. Len(users) : users[i].session_token = t}

\* token t is bound to a user
Live(t) == t # NoToken /\ Holders(t) # {}

\* the user rows named name
Named(name) == {i \in 1 .. Len(users) : users[i].name = name}

\* a step that answers a request with cookie tok to one of the ordinary
\* authenticated endpoints (the endpoint is read off the answer first)
OrdinaryRequest(tok) ==
    \/ resp'.op = "me" /\ get_current_user(tok)
    \/ /\ resp'.op = "create_profile"
       /\ \E dept \in Departments : create_employee_profile(tok, dept)
    \/ resp'.op = "get_profile" /\ get_employee_profile(tok)
    \/ /\ resp'.op = "update_profile"
       /\ \E dept \in Departments : update_employee_profile(tok, dept)
    \/ /\ resp'.op = "create_goal"
       /\ \E title \in Titles : create_learning_goal(tok, title)
    \/ resp'.op = "get_goals" /\ get_learning_goals(tok)
    \/ /\ resp'.op = "update_goal"
       /\ \E goal_id \in PathIds, title \in Titles :
             update_learning_goal(tok, goal_id, title)
    \/ /\ resp'.op = "create_milestone"
       /\ \E source \in Sources, learned \in Learned, hours \in Hours :
             create_milestone(tok, source, learned, hours)
    \/ resp'.op = "get_milestones" /\ get_milestones(tok)
    \/ /\ resp'.op = "get_resources"
       /\ \E category \in Categories : get_approved_resources(tok, category)
    \/ resp'.op = "get_peers" /\ get_peer_profiles(tok)
    \/ /\ resp'.op = "bookmark"
       /\ \E user_id \in PathIds : bookmark_user(tok, user_id)

\* a step that answers a request with cookie tok to an admin-only route
AdminRequest(tok) ==
    \/ resp'.op = "admin_stats" /\ get_admin_stats(tok)
    \/ resp'.op = "admin_pending" /\ get_pending_resources(tok)
    \/ /\ resp'.op = "admin_approve"
       /\ \E resource_id \in PathIds : approve_resource(tok, resource_id)
    \/ resp'.op = "admin_analytics" /\ get_learning_analytics(tok)
    \/ resp'.op = "admin_users" /\ get_all_users(tok)
    \/ resp'.op = "admin_badges" /\ get_all_badge_generations(tok)
    \/ resp'.op = "admin_actions" /\ get_admin_actions(tok)

\* a step that answers a request with cookie tok to POST /generate
GenerateRequest(tok) ==
    /\ resp'.op = "generate"
    /\ \E request \in Requests, upstream \in Upstream,
          fault \in StoreFaults :
          generate_badge_and_post(tok, request, upstream, fault)

\* a step that answers POST /auth/login for name
LoginRequest(name) == resp'.op = "login" /\ login_user(name)

\* a step that answers POST /auth/logout with cookie tok
LogoutRequest(tok) == resp'.op = "logout" /\ logout_user(tok)

\* a request with cookie tok to any route that checks the session
SessionRequest(tok) ==
    OrdinaryRequest(tok) \/ AdminRequest(tok) \/ GenerateRequest(tok)

OrdinaryOps ==
    {"me", "create_profile", "get_profile", "update_profile", "create_goal",
     "get_goals", "update_goal", "create_milestone", "get_milestones",
     "get_resources", "get_peers", "bookmark"}

AdminOps ==
    {"admin_stats", "admin_pending", "admin_approve", "admin_analytics",
     "admin_users", "admin_badges", "admin_actions"}

(* ================================ C1 ==================================== *)
\* C1: a login for a name whose row holds token old mints a fresh token and
\* overwrites old; from then on a request presenting old is answered 401
\* (unauthenticated) on every route that checks the session -- the ordinary
\* routes, /auth/me, the admin routes and /generate -- and the new token is
\* accepted as that user.
C1_OldTokenUnauthenticated ==
    [][\A name \in Names, old \in Minted, new \in 1 .. MaxWrites :
          ( /\ LoginRequest(name)
            /\ new = nextToken
            /\ Named(name) # {}
            /\ \E i \in Named(name) : users[i].session_token = old )
          => ( /\ Holders(new) = Named(name)
               /\ verify_user_session(new).status = 200
               /\ MeStatus(new) = 200
               /\ verify_user_session(old).status = 401
               /\ MeStatus(old) = 401
               /\ verify_admin(old).status = 401
               /\ \A upstream \in Upstream, fault \in StoreFaults :
                     GenerateStatus(old, upstream, fault) = 401 )'
      ]_vars

\* C1 on the routes guarded by verify_user_session and on /auth/me only
C1_OldTokenUnauthenticatedOnUserRoutes ==
    [][\A name \in Names, old \in Minted, new \in 1 .. MaxWrites :
          ( /\ LoginRequest(name)
            /\ new = nextToken
            /\ Named(name) # {}
            /\ \E i \in Named(name) : users[i].session_token = old )
          => ( /\ Holders(new) = Named(name)
               /\ verify_user_session(new).status = 200
               /\ MeStatus(new) = 200
               /\ ~Live(old)
               /\ verify_user_session(old).status = 401
               /\ MeStatus(old) = 401 )'
      ]_vars

(* ================================ C2 ==================================== *)
\* C2: with logins run one after another, every name has at most one row in
\* db.users; a login leaves exactly one row for its name, creating it when
\* the name is new and otherwise keeping the row, its id and the number of
\* rows as they were.
C2_OneRowPerName ==
    /\ [](\A name \in LoginNames : Cardinality(Named(name)) <= 1)
    /\ [][\A name \in LoginNames :
             LoginRequest(name) =>
                /\ Cardinality(Named(name)') = 1
                /\ Named(name) # {} =>
                      /\ Named(name)' = Named(name)
                      /\ Len(users') = Len(users)
                      /\ \A i \in Named(name) : users'[i].id = users[i].id
                /\ Named(name) = {} =>
                      /\ Len(users') = Len(users) + 1
                      /\ Named(name)' = {Len(users')}
        ]_vars

\* a name has logged in twice and holds the token of its second login
C2_Witness ==
    /\ resp.op = "login"
    /\ \E i \in 1 .. Len(users) :
          /\ users[i].session_token = 2
          /\ nextToken = 3
          /\ Len(users) = 1

(* ================================ C3 ==================================== *)
\* C3: a user row has role admin if and only if its name is exactly
\* "Arush T."; every other name, also one differing from it in case or in
\* trailing punctuation only, has role user.
C3_AdminIffExactName ==
    \A i \in 1 .. Len(users) :
        /\ users[i].role \in {"admin", "user"}
        /\ users[i].role = "admin" <=> users[i].name = "Arush T."

\* the admin name and a name differing in case have both logged in
C3_Witness ==
    /\ \E i \in 1 .. Len(users) :
          users[i].name = "Arush T." /\ users[i].role = "admin"
    /\ \E i \in 1 .. Len(users) :
          users[i].name = "arush t." /\ users[i].role = "user"

(* ================================ C4 ==================================== *)
\* C4: no request changes a stored role: over every step, every user row
\* stays in place with the id, the name and the role it had.
C4_RoleNeverChanges ==
    [][\A i \in 1 .. Len(users) :
          /\ i <= Len(users')
          /\ users'[i].id = users[i].id
          /\ users'[i].name = users[i].name
          /\ users'[i].role = users[i].role
      ]_vars

\* the admin has logged in and generated a badge
C4_Witness ==
    /\ resp.op = "generate"
    /\ resp.status = 200
    /\ \E i \in 1 .. Len(users) :
          /\ users[i].role = "admin"
          /\ users[i].total_badges_generated = 1

(* ================================ C5 ==================================== *)
\* C5: on every ordinary authenticated endpoint a request with no cookie or
\* with a token bound to no user is answered 401 and changes no collection
\* (stated as: a step that answers anything else, or changes the store,
\* answers an ordinary request only for a cookie that is bound to a user).
C5_OrdinaryUnauthenticated ==
    [][\/ resp'.status = 401 /\ UNCHANGED store
       \/ \A tok \in Cookies : OrdinaryRequest(tok) => Live(tok)
      ]_vars

\* an ordinary write was refused while a token cleared by logout exists
C5_Witness ==
    /\ resp.op = "create_milestone"
    /\ resp.status = 401
    /\ \E t \in Minted : ~Live(t)
    /\ \E i \in 1 .. Len(users) : users[i].session_token = NoToken

(* ================================ C6 ==================================== *)
\* C6: on every admin-only route a request with no cookie is answered 401,
\* a request whose token is bound to a user with a role other than admin is
\* answered 403, and a request whose token is bound to an admin is served
\* (200; the approve route answers 404 for an id that matches no resource).
C6_AdminGuard ==
    [][\A tok \in Cookies :
          AdminRequest(tok) =>
             /\ tok = NoToken => resp'.status = 401
             /\ (Live(tok) /\ \A i \in Holders(tok) : users[i].role # "admin")
                   => resp'.status = 403
             /\ (Live(tok) /\ \A i \in Holders(tok) : users[i].role = "admin")
                   => \/ resp'.status = 200
                      \/ resp'.op = "admin_approve" /\ resp'.status = 404
      ]_vars

\* the admin has been served /admin/stats
C6_Witness ==
    /\ resp.op = "admin_stats"
    /\ resp.status = 200
    /\ \E i \in 1 .. Len(admin_actions) :
          admin_actions[i].action = "view_enhanced_stats"

(* ================================ C7 ==================================== *)
\* C7: on every admin-only route a request presenting a non-empty token that
\* is bound to no user (never issued, cleared by logout or replaced by a
\* later login) is answered 401, as on the ordinary routes, and not 403.
C7_AdminUnboundTokenUnauthenticated ==
    [][\A tok \in Cookies :
          (tok # NoToken /\ ~Live(tok) /\ AdminRequest(tok))
          => resp'.status = 401
      ]_vars

(* ================================ C8 ==================================== *)
\* C8: POST /generate with no cookie or with a token bound to no user is
\* answered 401, calls no external generator, inserts no BadgeGeneration and
\* changes no user counter.
C8_GenerateUnauthenticated ==
    [][\A tok \in Cookies :
          (~Live(tok) /\ GenerateRequest(tok))
          => (resp'.status = 401 /\ ~resp'.called /\ UNCHANGED store)
      ]_vars

\* what the handler does for such a request: no call and no write, but the
\* answer is 500
C8_GenerateUnauthenticatedAnswered500 ==
    [][\A tok \in Cookies :
          (~Live(tok) /\ GenerateRequest(tok))
          => (resp'.status = 500 /\ ~resp'.called /\ UNCHANGED store)
      ]_vars

(* ================================ C9 ==================================== *)
\* C9: a logout presenting token T bound to user U clears U's token and
\* nothing else (every other user row and every other collection is as it
\* was; a logout presenting a stale or unknown token changes nothing); a
\* minted token that is bound to no user is never bound again; a request
\* presenting an unbound token to a route that checks the session is
\* refused and changes nothing (stated as: a step that answers 200 or
\* changes the store answers no such request); and a user without a token
\* gets one only by logging in again.
C9_LogoutUnbindsToken ==
    [][/\ \A tok \in Cookies :
             LogoutRequest(tok) =>
                /\ (~Live(tok))'
                /\ Len(users') = Len(users)
                /\ \A i \in 1 .. Len(users) :
                      users'[i] =
                         IF tok # NoToken /\ i \in Holders(tok)
                         THEN [users[i] EXCEPT !.session_token = NoToken]
                         ELSE users[i]
                /\ UNCHANGED others
       /\ \A t \in Minted : ~Live(t) => (~Live(t))'
       /\ \/ resp'.status # 200 /\ UNCHANGED store
          \/ \A tok \in Cookies : SessionRequest(tok) => Live(tok)
       /\ \A i \in 1 .. Len(users) :
             (users[i].session_token = NoToken
              /\ users'[i].session_token # NoToken)
             => LoginRequest(users[i].name)
      ]_vars

\* one of two logged-in users has logged out; the other is still logged in
C9_Witness ==
    /\ resp.op = "logout"
    /\ \E i, j \in 1 .. Len(users) :
          /\ users[i].session_token = NoToken
          /\ users[j].session_token # NoToken

(* ================================ C10 =================================== *)
\* C10 as stated: a logout request that carries no session token is refused
\* as unauthenticated (401).
C10_LogoutRequiresCookie ==
    [][LogoutRequest(NoToken) => resp'.status = 401]_vars

\* C10 as amended: POST /auth/logout does not require the cookie; a logout
\* request that carries no session token is answered with success (200) and
\* changes no collection.
C10_LogoutWithoutCookieSucceeds ==
    [][LogoutRequest(NoToken) => (resp'.status = 200 /\ UNCHANGED store)]_vars

\* a logout was answered before any token was minted
C10_Witness ==
    /\ resp.op = "logout"
    /\ resp.status = 200
    /\ Minted = {}
(* ================================ C11 =================================== *)
\* C11: whatever the category filter (absent, empty or any string), the
\* listing GET /resources returns holds approved resources only: it is made
\* of exactly the stored resources with approved = TRUE that pass the
\* filter, newest first, and no stored resource with approved = FALSE is in
\* it.
C11_OnlyApprovedListed ==
    [][\A tok \in Cookies, category \in Categories :
          (resp'.op = "get_resources" /\ resp'.status = 200
           /\ get_approved_resources(tok, category))
          => LET listing == resp'.body.resources IN
             /\ \A i \in 1 .. Len(listing) : listing[i].approved = TRUE
             /\ \A j \in 1 .. Len(resources) :
                   (\E i \in 1 .. Len(listing) : listing[i] = resources[j])
                   <=> ( /\ resources[j].approved = TRUE
                         /\ category # "" =>
                               resources[j].category = category )
      ]_vars

\* a listing was returned while the store held an approved and an
\* unapproved resource
C11_Witness ==
    /\ resp.op = "get_resources"
    /\ resp.status = 200
    /\ Len(resp.body.resources) = 1
    /\ \E i, j \in 1 .. Len(resources) :
          resources[i].approved = TRUE /\ resources[j].approved = FALSE
(* ============================ C12 .. C14 ================================ *)
\* the milestones (by index) whose month-bucket is the current month
CurrentMonth == {i \in 1 .. Len(milestones) : milestones[i].month_year = now}

\* hours_invested summed over the milestones in I
RECURSIVE HoursOver(_)
HoursOver(I) ==
    IF I = {} THEN 0
    ELSE LET i == CHOOSE j \in I : TRUE
         IN milestones[i].hours_invested + HoursOver(I \ {i})

\* the current-month milestones of user id u
CurrentOf(u) == {i \in CurrentMonth : milestones[i].user_id = u}

\* the distinct user ids whose current-month hours sum to the target
MeetingTarget ==
    {u \in {milestones[i].user_id : i \in CurrentMonth} :
        HoursOver(CurrentOf(u)) >= TargetHours}

\* a step that answers GET /admin/stats to an admin
StatsServed ==
    /\ resp'.op = "admin_stats"
    /\ resp'.status = 200
    /\ \E tok \in Cookies : get_admin_stats(tok)

\* C12: monthly_learning_hours of /admin/stats is the sum of hours_invested
\* over exactly the milestones whose month_year is the current month at
\* query time (0 when there are none), and employees_meeting_target is the
\* number of users whose hours over that same set reach the target (as far
\* as the list the handler reads goes): a milestone of an earlier month
\* adds to neither figure.
C12_CurrentMonthOnly ==
    [][StatsServed =>
          /\ resp'.body.monthly_learning_hours = HoursOver(CurrentMonth)
          /\ CurrentMonth = {} => resp'.body.monthly_learning_hours = 0
          /\ resp'.body.employees_meeting_target =
                IF Cardinality(MeetingTarget) > TargetListLength
                THEN TargetListLength ELSE Cardinality(MeetingTarget)
      ]_vars

\* the stats were read while the store held a milestone of an earlier month
\* that reaches the target alone and a current one that does not
C12_Witness ==
    /\ resp.op = "admin_stats"
    /\ resp.status = 200
    /\ resp.body.monthly_learning_hours = 3
    /\ resp.body.employees_meeting_target = 0
    /\ \E i \in 1 .. Len(milestones) :
          milestones[i].month_year < now /\ milestones[i].hours_invested = 7

\* C13: once "Arush T." has posted a milestone with hours_invested = 7, a
\* GET /admin/stats in the same month reports monthly_learning_hours >= 7
\* and counts that user among the employees meeting the target, whatever
\* other milestones have been created.
C13_SevenHoursCounted ==
    [][\A i \in 1 .. Len(milestones), u \in 1 .. Len(users) :
          ( /\ StatsServed
            /\ users[u].name = "Arush T."
            /\ milestones[i].user_id = users[u].id
            /\ milestones[i].hours_invested = 7
            /\ milestones[i].month_year = now )
          => /\ resp'.body.monthly_learning_hours >= 7
             /\ users[u].id \in MeetingTarget
             /\ resp'.body.employees_meeting_target >= 1
      ]_vars

\* C14: employees_meeting_target of /admin/stats is the number of distinct
\* user ids whose hours_invested over their current-month milestones sum to
\* at least 6, whatever the number of users.
C14_TargetCountUncapped ==
    [][StatsServed =>
          resp'.body.employees_meeting_target = Cardinality(MeetingTarget)
      ]_vars

\* what the handler answers: the number of such users, up to the length of
\* the list it reads
C14_TargetCountCapped ==
    [][StatsServed =>
          resp'.body.employees_meeting_target =
             IF Cardinality(MeetingTarget) > TargetListLength
             THEN TargetListLength ELSE Cardinality(MeetingTarget)
      ]_vars
(* ============================ C15 .. C17 ================================ *)
\* a step that answers a POST /generate for which the generator replied 200
\* with a text (the caller is logged in and the key is configured, or the
\* generator would not have been called)
GenerateReplied ==
    /\ resp'.op = "generate"
    /\ resp'.called
    /\ resp'.detail \notin {"non200", "invalid"}

\* C15: when the reply holds neither the BADGE: nor the LINKEDIN_POST:
\* marker, the request fails with the parse error (nothing of the reply is
\* returned) and the store is as it was: no BadgeGeneration inserted, no
\* counter incremented.
C15_UnmarkedReplyRejected ==
    [][( /\ GenerateReplied
         /\ ~Contains(resp'.reply, BADGE)
         /\ ~Contains(resp'.reply, LINKEDIN_POST) )
       => /\ resp'.status = 500
          /\ resp'.detail = "unparsable"
          /\ resp'.body = NoBody
          /\ UNCHANGED store
      ]_vars

\* a reply of two lines without markers was rejected by the parse, a user
\* being logged in
C15_Witness ==
    /\ resp.op = "generate"
    /\ resp.status = 500
    /\ resp.detail = "unparsable"
    /\ resp.reply = <<"w", "\n", "w">>
    /\ badge_generations = <<>>
    /\ \E i \in 1 .. Len(users) :
          /\ users[i].session_token # NoToken
          /\ users[i].total_badges_generated = 0

\* the lines of a reply, as the handler splits them
LinesOf(text) == Split(Strip(text), "\n")

\* the number of occurrences of marker in text
Count(text, marker) == Cardinality({i \in 1 .. Len(text) : text[i] = marker})

\* a reply in the requested format: one BADGE: marker and one
\* LINKEDIN_POST: marker, each at the start of a line, the badge line first
\* and not empty
WellFormed(text) ==
    /\ Count(text, BADGE) = 1
    /\ Count(text, LINKEDIN_POST) = 1
    /\ \E i, j \in 1 .. Len(LinesOf(text)) :
          /\ i < j
          /\ StartsWith(LinesOf(text)[i], BADGE)
          /\ Strip(Replace(LinesOf(text)[i], BADGE)) # <<>>
          /\ StartsWith(LinesOf(text)[j], LINKEDIN_POST)

\* the whole text that follows the LINKEDIN_POST: marker, to the end of
\* the reply
AfterPostMarker(text) == Strip(Split(text, LINKEDIN_POST)[2])

\* C16 (on the replies in the requested format, which are among those the
\* claim covers, and when no store write fails): /generate succeeds with a
\* badgeUrl that starts with the SVG data-URI prefix and goes on, and with
\* a linkedinPost equal to the whole text after the LINKEDIN_POST: marker,
\* over however many lines.
C16_PostIsTextAfterMarker ==
    [][( /\ GenerateReplied
         /\ resp'.detail \notin {"insert_failed", "update_failed"}
         /\ WellFormed(resp'.reply) )
       => /\ resp'.status = 200
          /\ Head(resp'.body.badgeUrl) = SvgDataUri
          /\ Len(resp'.body.badgeUrl) > 1
          /\ resp'.body.linkedinPost = AfterPostMarker(resp'.reply)
      ]_vars

\* what the handler answers for such a reply: success, the badgeUrl as
\* claimed, and the rest of the marker's own line as the linkedinPost
C16_PostIsMarkerLine ==
    [][( /\ GenerateReplied
         /\ resp'.detail \notin {"insert_failed", "update_failed"}
         /\ WellFormed(resp'.reply) )
       => /\ resp'.status = 200
          /\ Head(resp'.body.badgeUrl) = SvgDataUri
          /\ Len(resp'.body.badgeUrl) > 1
          /\ resp'.body.linkedinPost
                = Strip(Split(AfterPostMarker(resp'.reply), "\n")[1])
      ]_vars

\* a step that answers a POST /generate whose reply parsed and one of whose
\* store writes failed
StoreWriteFailed ==
    /\ GenerateReplied
    /\ resp'.detail \in {"insert_failed", "update_failed"}

\* C17 as stated: when the generator has replied and the reply parses but
\* a store write of the request fails, the client still receives badgeUrl
\* and linkedinPost and the request leaves no BadgeGeneration.
C17_ContentDeliveredOnStoreFailure ==
    [][StoreWriteFailed =>
          /\ resp'.status = 200
          /\ resp'.body.badgeUrl # <<>>
          /\ resp'.body.linkedinPost = ParseReply(resp'.reply).linkedin_post
          /\ badge_generations' = badge_generations
      ]_vars

\* C17 as amended: such a request is answered 500 and the client receives
\* neither badgeUrl nor linkedinPost; when the insert is the write that
\* failed the store is as it was, and when the counter update is, the
\* request's BadgeGeneration is stored and the counter is as it was.
C17_StoreFailureAnswered500 ==
    [][StoreWriteFailed =>
          /\ ParseReply(resp'.reply).ok
          /\ resp'.status = 500
          /\ resp'.body = NoBody
          /\ users' = users
          /\ resp'.detail = "insert_failed" => UNCHANGED store
          /\ resp'.detail = "update_failed" =>
                /\ Len(badge_generations') = Len(badge_generations) + 1
                /\ SubSeq(badge_generations', 1, Len(badge_generations))
                      = badge_generations
      ]_vars

\* a request failed at the counter update: its BadgeGeneration is stored
\* and its user's counter is 0
C17_Witness ==
    /\ resp.op = "generate"
    /\ resp.status = 500
    /\ resp.detail = "update_failed"
    /\ Len(badge_generations) = 1
    /\ \E i \in 1 .. Len(users) :
          /\ users[i].id = badge_generations[1].user_id
          /\ users[i].total_badges_generated = 0

(* ------------------------------- C18 ----------------------------------- *)
\* the rows that hold the key of a request in flight: the users of its
\* name, the profiles of its user, the bookmarks of its pair, the resources
\* of its url
KeyRows(req) ==
    CASE req.op = "login" -> Cardinality(Named(req.name))
      [] req.op = "create_profile" ->
           Cardinality({i \in 1 .. Len(employee_profiles) :
                           employee_profiles[i].user_id = req.user})
      [] req.op = "bookmark" ->
           Cardinality({i \in 1 .. Len(bookmarks) :
                           /\ bookmarks[i].user_id = req.user
                           /\ bookmarks[i].bookmarked_user_id = req.target})
      [] req.op = "add_resource" ->
           Cardinality({i \in 1 .. Len(resources) :
                           resources[i].url = req.arg})
      [] OTHER -> 0

\* the existence check of the request in flight found no row
PassedCheck(req) ==
    /\ req # Idle
    /\ req.op = "login" => req.user = 0

\* C18: a request that has passed its existence check inserts its row when
\* it goes on, also when a concurrent request on the same key has inserted
\* one in between; so two requests on one key (two first logins of a name,
\* two bookmarks of a pair, two milestones of a new source url, two profile
\* creations of a user) that both pass the check before either inserts
\* leave two rows for the key.
C18_StaleCheckInserts ==
    [][\A w \in Workers : \A req \in {inflight[w]} :
          (PassedCheck(req) /\ inflight'[w] = Idle) =>
             /\ KeyRows(req)' = KeyRows(req) + 1
             /\ resp'.status = 200
      ]_vars

\* both workers passed the check on the same key before either insert, in
\* turn for each of the four kinds of request, and the store holds two rows
\* for each key
C18_Witness ==
    /\ Cardinality(Named("arush t.")) = 2
    /\ \E i, j \in 1 .. Len(employee_profiles) :
          i # j /\ employee_profiles[i].user_id = employee_profiles[j].user_id
    /\ \E i, j \in 1 .. Len(bookmarks) :
          /\ i # j
          /\ bookmarks[i].user_id = bookmarks[j].user_id
          /\ bookmarks[i].bookmarked_user_id = bookmarks[j].bookmarked_user_id
    /\ \E i, j \in 1 .. Len(resources) :
          i # j /\ resources[i].url = resources[j].url

(* ------------------------------- C19 ----------------------------------- *)
\* the id of the user token tok is bound to
IdOf(tok) == users[UserByToken(tok)].id

\* the Bookmark rows of the pair (uid, user_id)
PairRows(uid, user_id) ==
    {i \in 1 .. Len(bookmarks) :
        /\ bookmarks[i].user_id = uid
        /\ bookmarks[i].bookmarked_user_id = user_id}

\* a step that answers POST /bookmarks/{user_id} with cookie tok
BookmarkRequest(tok, user_id) ==
    resp'.op = "bookmark" /\ bookmark_user(tok, user_id)

\* C19: with requests served one after another no pair has two Bookmark
\* rows; a bookmark request of a signed-in user for an id the user has not
\* bookmarked appends one row of the pair and nothing else, and one for an
\* id already bookmarked is answered 400 and leaves the store as it was.
C19_BookmarkPairStoredOnce ==
    /\ [](\A i, j \in 1 .. Len(bookmarks) :
             bookmarks[i] = bookmarks[j] => i = j)
    /\ [][\A tok \in Minted, user_id \in PathIds :
             (Live(tok) /\ BookmarkRequest(tok, user_id)) =>
                IF PairRows(IdOf(tok), user_id) = {}
                THEN /\ resp'.status = 200
                     /\ bookmarks' =
                           Append(bookmarks,
                                  [user_id |-> IdOf(tok),
                                   bookmarked_user_id |-> user_id])
                ELSE /\ resp'.status = 400
                     /\ UNCHANGED store
         ]_vars

\* a user's second request for the same id has been rejected, and the pair
\* has the one row of the first
C19_Witness ==
    /\ resp.op = "bookmark"
    /\ resp.status = 400
    /\ \E u \in 1 .. Len(users), user_id \in PathIds :
          Cardinality(PairRows(users[u].id, user_id)) = 1

(* ------------------------------- C20 ----------------------------------- *)
\* the EmployeeProfile rows of user uid
ProfileRows(uid) ==
    {i \in 1 .. Len(employee_profiles) : employee_profiles[i].user_id = uid}

\* a step that answers POST /profile with cookie tok
CreateProfileRequest(tok) ==
    /\ resp'.op = "create_profile"
    /\ \E dept \in Departments : create_employee_profile(tok, dept)

\* a step that answers PUT /profile with cookie tok
UpdateProfileRequest(tok) ==
    /\ resp'.op = "update_profile"
    /\ \E dept \in Departments : update_employee_profile(tok, dept)

\* C20: with requests served one after another no user has two
\* EmployeeProfile rows; POST /profile of a signed-in user who has a
\* profile is answered 400 and leaves the store as it was, and PUT /profile
\* of a signed-in user who has none is answered 404 and leaves the store as
\* it was.
C20_OneProfilePerUser ==
    /\ [](\A i, j \in 1 .. Len(employee_profiles) :
             employee_profiles[i].user_id = employee_profiles[j].user_id
                => i = j)
    /\ [][\A tok \in Minted :
             /\ (/\ Live(tok)
                 /\ ProfileRows(IdOf(tok)) # {}
                 /\ CreateProfileRequest(tok)) =>
                   resp'.status = 400 /\ UNCHANGED store
             /\ (/\ Live(tok)
                 /\ ProfileRows(IdOf(tok)) = {}
                 /\ UpdateProfileRequest(tok)) =>
                   resp'.status = 404 /\ UNCHANGED store
         ]_vars

\* a signed-in user's second POST /profile has been rejected, and the user
\* has the one profile of the first
C20_Witness ==
    /\ resp.op = "create_profile"
    /\ resp.status = 400
    /\ \E tok \in Minted :
          Live(tok) /\ Cardinality(ProfileRows(IdOf(tok))) = 1

(* ------------------------------- C21 ----------------------------------- *)
\* the step appends one audit row, of the admin token tok is bound to, and
\* leaves the rows before it as they were
AuditedAs(tok) ==
    /\ Len(admin_actions') = Len(admin_actions) + 1
    /\ SubSeq(admin_actions', 1, Len(admin_actions)) = admin_actions
    /\ admin_actions'[Len(admin_actions')].admin_id = IdOf(tok)
    /\ admin_actions'[Len(admin_actions')].admin_name
          = users[UserByToken(tok)].name

\* C21: every request to an admin-only route that is answered 200 appends
\* exactly one AdminAction row with the id and the name of the admin who
\* made it.
C21_EveryAdminRouteAudited ==
    [][\A tok \in Minted :
          (Live(tok) /\ AdminRequest(tok) /\ resp'.status = 200)
             => AuditedAs(tok)
      ]_vars

\* the same of every admin-only route but /admin/actions, which reads the
\* log and appends nothing
C21_AuditedExceptActionsLog ==
    [][\A tok \in Minted :
          (Live(tok) /\ AdminRequest(tok) /\ resp'.status = 200) =>
             IF resp'.op = "admin_actions" THEN UNCHANGED store
             ELSE AuditedAs(tok)
      ]_vars

(* ------------------------------- C22 ----------------------------------- *)
\* the Resource rows of url source
UrlRows(source) == {i \in 1 .. Len(resources) : resources[i].url = source}

\* C22: whenever POST /milestones has inserted its milestone, the request
\* is answered 200 and the row is in the store after the rows the
\* collection held, whether the resource step inserts a resource (new
\* url), finds one (known url) or raises (new url, blank text: nothing is
\* inserted).
C22_ResourceStepNeverAborts ==
    [][(resp'.op = "create_milestone" /\ milestones' # milestones) =>
          LET row == milestones'[Len(milestones')] IN
          /\ resp'.status = 200
          /\ Len(milestones') = Len(milestones) + 1
          /\ SubSeq(milestones', 1, Len(milestones)) = milestones
          /\ IF UrlRows(row.source) # {} \/ row.what_learned = <<>>
             THEN resources' = resources
             ELSE Len(resources') = Len(resources) + 1
      ]_vars

\* a milestone with a blank text has been accepted: its row is stored, and
\* the resource step, which raised on the text, left no resource of its url
C22_Witness ==
    /\ resp.op = "create_milestone"
    /\ resp.status = 200
    /\ \E i \in 1 .. Len(milestones) :
          /\ milestones[i].what_learned = <<>>
          /\ UrlRows(milestones[i].source) = {}

(* ------------------------------- C23 ----------------------------------- *)
\* the svg text of a badge url: the data-URI prefix and the base64 encoding
\* taken off
SvgOf(badge_url) == Tail(Tail(badge_url))

\* the five colours drawn in an svg, in the order of the template
ColoursOf(svg) == SubSeq(svg, 2, 6)

\* the stars drawn in an svg
StarsOf(svg) == svg[7]

\* the five colours of a palette, in the order of the template
Drawn(colors) ==
    <<colors.primary, colors.secondary, colors.wing, colors.accent,
      colors.glow>>

\* a step that serves POST /generate for request
BadgeRendered(request) ==
    /\ resp'.op = "generate"
    /\ resp'.status = 200
    /\ badge_generations'[Len(badge_generations')].difficulty
          = request.difficulty
    /\ badge_generations'[Len(badge_generations')].employee_name
          = request.employeeName

\* C23: the badge of a request whose difficulty is none of "Easy",
\* "Moderate" and "Hard" (another casing and the empty string included) is
\* rendered, with the colours of Easy and one star; the badge of each of the
\* three has its own colours and one, two and three stars.
C23_UnknownDifficultyRendersEasy ==
    [][\A request \in BadgeRequests :
          BadgeRendered(request) =>
             LET svg == SvgOf(resp'.body.badgeUrl)
                 d == request.difficulty
             IN /\ svg = generate_badge_svg(request.employeeName, <<"w">>, d)
                /\ d \notin {"Easy", "Moderate", "Hard"} =>
                      /\ ColoursOf(svg) = Drawn(difficulty_colors.Easy)
                      /\ StarsOf(svg) = "*"
                /\ d = "Easy" =>
                      /\ ColoursOf(svg) = Drawn(difficulty_colors.Easy)
                      /\ StarsOf(svg) = "*"
                /\ d = "Moderate" =>
                      /\ ColoursOf(svg) = Drawn(difficulty_colors.Moderate)
                      /\ StarsOf(svg) = "**"
                /\ d = "Hard" =>
                      /\ ColoursOf(svg) = Drawn(difficulty_colors.Hard)
                      /\ StarsOf(svg) = "***"
      ]_vars

\* a badge of difficulty "easy" and one of difficulty "Hard" have been
\* rendered, the last with three stars
C23_Witness ==
    /\ resp.op = "generate"
    /\ resp.status = 200
    /\ StarsOf(SvgOf(resp.body.badgeUrl)) = "***"
    /\ \E i \in 1 .. Len(badge_generations) :
          badge_generations[i].difficulty = "easy"

(* ------------------------------- C24 ----------------------------------- *)
\* the BadgeGeneration rows of user uid
BadgeRows(uid) ==
    {i \in 1 .. Len(badge_generations) : badge_generations[i].user_id = uid}

\* no /generate request is between its first and its last store access
NoGenerateInFlight ==
    \A w \in Workers : inflight[w].op \notin {"generate_insert", "generate_inc"}

\* C24: with /generate requests of one or several users served at the same
\* time and no store write failing, a request inserts one BadgeGeneration
\* row of its caller, then increments the counter of its caller alone by
\* one; and whenever no /generate request is in flight, every user's
\* total_badges_generated is the number of BadgeGeneration rows of the
\* user's id.
C24_CounterMatchesBadgeRows ==
    /\ [](NoGenerateInFlight =>
             \A i \in 1 .. Len(users) :
                users[i].total_badges_generated
                   = Cardinality(BadgeRows(users[i].id)))
    /\ [][\A w \in Workers : \A req \in {inflight[w]} :
             /\ (req.op = "generate_insert" /\ inflight'[w] # req) =>
                   /\ badge_generations'
                         = Append(badge_generations,
                                  badge_generations'[Len(badge_generations')])
                   /\ badge_generations'[Len(badge_generations')].user_id
                         = req.user
                   /\ users' = users
             /\ (req.op = "generate_inc" /\ inflight'[w] # req) =>
                   /\ badge_generations' = badge_generations
                   /\ Len(users') = Len(users)
                   /\ \A i \in 1 .. Len(users) :
                         users'[i] =
                            IF users[i].id = req.user
                            THEN [users[i] EXCEPT
                                     !.total_badges_generated = @ + 1]
                            ELSE users[i]
         ]_vars

\* both users have been served, one of them twice, and no request is in
\* flight
C24_Witness ==
    /\ NoGenerateInFlight
    /\ resp.op = "generate"
    /\ resp.status = 200
    /\ \E i, j \in 1 .. Len(users) :
          /\ users[i].total_badges_generated = 2
          /\ users[j].total_badges_generated = 1

(* ------------------------------- C25 ----------------------------------- *)
\* the milestones in the store of one normalized text
SkillRows(skill) ==
    {i \in 1 .. Len(milestones) : Skill(milestones[i].what_learned) = skill}

\* C25: in the answer of /admin/learning-analytics the total_count of every
\* returned skill is the number of milestones in the store of that
\* normalized text, and each count of its monthly_data is the number of
\* those of that month, whether or not their users have a profile.
C25_SkillTrendCountsEveryMilestone ==
    [][(resp'.op = "admin_analytics" /\ resp'.status = 200) =>
          \A trend \in resp'.body.skills_trends :
             /\ trend.total_count = Cardinality(SkillRows(trend.skill))
             /\ \A entry \in trend.monthly_data :
                   entry.count =
                      Cardinality({i \in SkillRows(trend.skill) :
                                      milestones[i].month_year = entry.month})
      ]_vars

\* what the handler computes: the counts are those of the milestones whose
\* user has a profile (once per profile of the user), and a skill recorded
\* only by users without a profile is not returned
C25_SkillTrendCountsJoinedMilestones ==
    [][(resp'.op = "admin_analytics" /\ resp'.status = 200) =>
          /\ \A trend \in resp'.body.skills_trends :
                /\ trend.total_count =
                      Cardinality({d \in Unwound : d[1] \in SkillRows(trend.skill)})
                /\ \A entry \in trend.monthly_data :
                      entry.count =
                         Cardinality(SkillMonthGroup(trend.skill, entry.month))
          /\ \A i \in 1 .. Len(milestones) :
                (\E trend \in resp'.body.skills_trends :
                    trend.skill = Skill(milestones[i].what_learned))
                <=> \E d \in Unwound :
                       Skill(milestones[d[1]].what_learned)
                          = Skill(milestones[i].what_learned)
      ]_vars

(* ------------------------------- C26 ----------------------------------- *)
\* the resources of a listing, as a set
Listed(listing) == {listing[i] : i \in 1 .. Len(listing)}

\* a step that answers POST /admin/resources/{resource_id}/approve with
\* cookie tok
ApproveRequest(tok, resource_id) ==
    resp'.op = "admin_approve" /\ approve_resource(tok, resource_id)

\* C26: approval by an admin of an existing resource sets approved and the
\* admin's id on the rows of that id alone and appends one audit row;
\* approval of an id no resource has is answered 404 and leaves the store
\* as it was; GET /resources lists every approved resource of the category
\* asked for and /admin/resources/pending lists the unapproved ones and no
\* approved one; and no step takes a resource away or turns an approved one
\* back to unapproved.
C26_ApprovalIsPermanent ==
    [][/\ \A tok \in Minted, resource_id \in PathIds :
             (Live(tok) /\ users[UserByToken(tok)].role = "admin"
                 /\ ApproveRequest(tok, resource_id)) =>
                IF \E i \in 1 .. Len(resources) : resources[i].id = resource_id
                THEN /\ resp'.status = 200
                     /\ Len(resources') = Len(resources)
                     /\ \A i \in 1 .. Len(resources) :
                           resources'[i] =
                              IF resources[i].id = resource_id
                              THEN [resources[i] EXCEPT
                                       !.approved = TRUE,
                                       !.approved_by_admin_id = IdOf(tok)]
                              ELSE resources[i]
                     /\ AuditedAs(tok)
                ELSE /\ resp'.status = 404
                     /\ UNCHANGED store
       /\ \A tok \in Minted, category \in Categories :
             (/\ resp'.op = "get_resources"
              /\ resp'.status = 200
              /\ get_approved_resources(tok, category)) =>
                \A i \in 1 .. Len(resources) :
                   (/\ resources[i].approved
                    /\ category # "" => resources[i].category = category)
                      => resources[i] \in Listed(resp'.body.resources)
       /\ (resp'.op = "admin_pending" /\ resp'.status = 200) =>
             Listed(resp'.body.resources)
                = {resources[i] : i \in {j \in 1 .. Len(resources) :
                                            ~resources[j].approved}}
       /\ \A i \in 1 .. Len(resources) :
             /\ i <= Len(resources')
             /\ resources[i].approved => resources'[i].approved
      ]_vars

\* the admin has approved one of two suggested resources, and the pending
\* listing served since shows the other and not the approved one
C26_Witness ==
    /\ resp.op = "admin_pending"
    /\ resp.status = 200
    /\ Len(resp.body.resources) = 1
    /\ \E i \in 1 .. Len(resources) :
          /\ resources[i].approved
          /\ resources[i].approved_by_admin_id = 1
          /\ resources[i] \notin Listed(resp.body.resources)

(* ------------------------------- C27 ----------------------------------- *)
\* a step leaves the rows of the collection as they are and may add rows
\* after them
Extended(before, after) ==
    /\ Len(after) >= Len(before)
    /\ SubSeq(after, 1, Len(before)) = before

\* C27: no step takes a row away from badge_generations, milestones,
\* resources or admin_actions, and no step changes a row of
\* badge_generations, milestones or admin_actions: each step leaves these
\* three as they were with new rows after the old, and resources with as
\* many rows or more, each still the resource of its id and url.
C27_EventCollectionsAppendOnly ==
    [][/\ Extended(badge_generations, badge_generations')
       /\ Extended(milestones, milestones')
       /\ Extended(admin_actions, admin_actions')
       /\ Len(resources') >= Len(resources)
       /\ \A i \in 1 .. Len(resources) :
             /\ resources'[i].id = resources[i].id
             /\ resources'[i].url = resources[i].url
      ]_vars

\* a second milestone has been recorded, and the first is still the first
\* row
C27_Witness ==
    /\ resp.op = "create_milestone"
    /\ resp.status = 200
    /\ Len(milestones) = 2
    /\ milestones[1].id = 1
    /\ milestones[2].id = 2

(* ------------------------------- C28 ----------------------------------- *)
\* C28: tokens being minted fresh, every token bound to a user is on one
\* row, the row the session guard executes the request as; the token a
\* login returns is on the row of the name that logged in; and no step puts
\* a token on a row that did not hold it, so a token only ever
\* authenticates as the user whose login returned it.
C28_TokenStaysWithItsUser ==
    /\ [](\A t \in Minted :
             Live(t) =>
                /\ Cardinality(Holders(t)) = 1
                /\ verify_user_session(t).status = 200
                /\ Holders(t) = {verify_user_session(t).user})
    /\ [][/\ \A t \in Minted : \A i \in Holders(t)' :
                /\ i \in Holders(t)
                /\ users'[i].id = users[i].id
                /\ users'[i].name = users[i].name
          /\ \A name \in LoginNames :
                LoginRequest(name) =>
                   \E i \in 1 .. Len(users'), minted \in {nextToken} :
                      /\ Holders(minted)' = {i}
                      /\ users'[i].name = name
                      /\ i \in Named(name) \/ Named(name) = {}
         ]_vars

\* two users hold a token each, the second user's being the one minted
\* after the first user logged in a second time
C28_Witness ==
    /\ resp.op = "login"
    /\ \E i, j \in 1 .. Len(users) :
          /\ i # j
          /\ users[i].session_token = 2
          /\ users[j].session_token = 3

(* ------------------------------- C29 ----------------------------------- *)
\* the rows of a listing, as a set
RowsOf(listing) == {listing[i] : i \in 1 .. Len(listing)}

\* C29: GET /goals and GET /milestones answer a signed-in caller with the
\* caller's rows and no row of another user; GET /peers answers with the
\* profiles of the others and not the caller's own; PUT /goals/{goal_id}
\* for a goal of another user is answered 404 and leaves the store as it
\* was.
C29_PerUserIsolation ==
    [][\A tok \in Minted :
          Live(tok) =>
             /\ (resp'.op = "get_goals" /\ get_learning_goals(tok)) =>
                   RowsOf(resp'.body.goals)
                      = {learning_goals[i] :
                            i \in {j \in 1 .. Len(learning_goals) :
                                      learning_goals[j].user_id = IdOf(tok)}}
             /\ (resp'.op = "get_milestones" /\ get_milestones(tok)) =>
                   RowsOf(resp'.body.milestones)
                      = {milestones[i] :
                            i \in {j \in 1 .. Len(milestones) :
                                      milestones[j].user_id = IdOf(tok)}}
             /\ (resp'.op = "get_peers" /\ get_peer_profiles(tok)) =>
                   {peer.id : peer \in RowsOf(resp'.body.peers)}
                      = {employee_profiles[i].id :
                            i \in {j \in 1 .. Len(employee_profiles) :
                                      employee_profiles[j].user_id
                                         # IdOf(tok)}}
             /\ \A goal_id \in PathIds, title \in Titles :
                   (/\ resp'.op = "update_goal"
                    /\ update_learning_goal(tok, goal_id, title)
                    /\ \E i \in 1 .. Len(learning_goals) :
                          /\ learning_goals[i].id = goal_id
                          /\ learning_goals[i].user_id # IdOf(tok)) =>
                      resp'.status = 404 /\ UNCHANGED store
      ]_vars

\* a user who has no goal has been served an empty list of goals while the
\* other user has one
C29_Witness ==
    /\ resp.op = "get_goals"
    /\ resp.status = 200
    /\ resp.body.goals = <<>>
    /\ learning_goals # <<>>

(* ------------------------------- C30 ----------------------------------- *)
\* C30 (as stated): once POST /milestones has stored a milestone, the
\* resources collection holds a Resource whose url is the milestone's
\* source, whatever the text of the milestone, a blank one included.
C30_MilestoneSourceHasResource ==
    [][(resp'.op = "create_milestone" /\ resp'.status = 200
           /\ milestones' # milestones) =>
          \E i \in 1 .. Len(resources') :
             resources'[i].url = milestones'[Len(milestones')].source
      ]_vars

\* what the code does: the stored milestone's source has a Resource unless
\* the text is blank and no Resource of that url was there before, in which
\* case the resource step raised on the text and nothing was inserted
C30_ResourceUnlessBlankText ==
    [][(resp'.op = "create_milestone" /\ resp'.status = 200
           /\ milestones' # milestones) =>
          \A added \in {milestones'[Len(milestones')]} :
             IF added.what_learned = <<>> /\ UrlRows(added.source) = {}
             THEN resources' = resources
             ELSE \E i \in 1 .. Len(resources') :
                     resources'[i].url = added.source
      ]_vars

====
